---- MODULE Spec2Model ----
(***************************************************************************)
(* Model of src/src/util/address.rs: the multi-coin address codec          *)
(* (Payload, Address, the per-coin profiles, Display and from_str).        *)
(*                                                                         *)
(* Bytes are naturals 0..255, byte strings are sequences of bytes, text is *)
(* a sequence of one-character strings.  The collaborators the file calls  *)
(* (bech32, util::base58, blockdata::script, the hash engines) are         *)
(* modelled from their published formats: BIP-173 and Base58Check.         *)
(***************************************************************************)
EXTENDS Naturals, Sequences, FiniteSets

VARIABLES a, s, sOf, script, r
vars == <<a, s, sOf, script, r>>

-----------------------------------------------------------------------------
(* Text                                                                    *)

Lower26 == <<"a","b","c","d","e","f","g","h","i","j","k","l","m",
             "n","o","p","q","r","s","t","u","v","w","x","y","z">>
Upper26 == <<"A","B","C","D","E","F","G","H","I","J","K","L","M",
             "N","O","P","Q","R","S","T","U","V","W","X","Y","Z">>
Digits10 == <<"0","1","2","3","4","5","6","7","8","9">>

Range(f) == { f[i] : i \in DOMAIN f }
IndexOf(seq, c) == CHOOSE i \in DOMAIN seq : seq[i] = c

\* A left fold of Step over the indices lo..hi, split in halves so that the
\* evaluation depth stays logarithmic; the accumulator is a sequence.
RECURSIVE FoldRange(_, _, _, _)
FoldRange(Step(_, _), acc, lo, hi) ==
    IF lo > hi THEN acc
    ELSE IF lo = hi THEN Step(acc, lo)
    ELSE LET mid == (lo + hi) \div 2
             left == FoldRange(Step, acc, lo, mid)
         IN IF Len(left) >= 0 THEN FoldRange(Step, left, mid + 1, hi) ELSE left

IsLower(c) == c \in Range(Lower26)
IsUpper(c) == c \in Range(Upper26)
IsDigit(c) == c \in Range(Digits10)

\* u8::to_ascii_lowercase, as str::eq_ignore_ascii_case applies it.
ToLowerChar(c) == IF IsUpper(c) THEN Lower26[IndexOf(Upper26, c)] ELSE c
ToLowerStr(t) == [i \in DOMAIN t |-> ToLowerChar(t[i])]
ToUpperChar(c) == IF IsLower(c) THEN Upper26[IndexOf(Lower26, c)] ELSE c
ToUpperStr(t) == [i \in DOMAIN t |-> ToUpperChar(t[i])]

\* The ASCII code of a letter or a digit.
AsciiCode(c) ==
    IF IsLower(c) THEN 96 + IndexOf(Lower26, c)
    ELSE IF IsUpper(c) THEN 64 + IndexOf(Upper26, c)
    ELSE 47 + IndexOf(Digits10, c)

eq_ignore_ascii_case(x, y) ==
    /\ Len(x) = Len(y)
    /\ \A i \in DOMAIN x : ToLowerChar(x[i]) = ToLowerChar(y[i])

\* str::rfind('1'): the last index holding the separator, 0 when there is none.
RFindOne(t) ==
    IF \E i \in DOMAIN t : t[i] = "1"
    THEN CHOOSE i \in DOMAIN t : t[i] = "1" /\ \A j \in DOMAIN t : t[j] = "1" => j <= i
    ELSE 0

find_bech32_prefix(bech32) ==
    LET sep == RFindOne(bech32)
    IN IF sep = 0 THEN bech32 ELSE SubSeq(bech32, 1, sep - 1)

-----------------------------------------------------------------------------
(* Errors and results                                                      *)

NoBytes == <<>>
Err(kind, sub, n, bytes) == [kind |-> kind, sub |-> sub, n |-> n, bytes |-> bytes]
NoErr == Err("none", "none", 0, NoBytes)

Base58Error(sub, n, bytes) == Err("Base58", sub, n, bytes)
Bech32Error(sub) == Err("Bech32", sub, 0, NoBytes)
EmptyBech32Payload == Err("EmptyBech32Payload", "none", 0, NoBytes)
InvalidWitnessVersion(v) == Err("InvalidWitnessVersion", "none", v, NoBytes)
InvalidWitnessProgramLength(n) == Err("InvalidWitnessProgramLength", "none", n, NoBytes)
InvalidSegwitV0ProgramLength(n) == Err("InvalidSegwitV0ProgramLength", "none", n, NoBytes)
UncompressedPubkey == Err("UncompressedPubkey", "none", 0, NoBytes)

-----------------------------------------------------------------------------
(* bech32 (BIP-173)                                                        *)

CHARSET == <<"q","p","z","r","y","9","x","8","g","f","2","t","v","d","w","0",
             "s","3","j","n","5","4","k","h","c","e","6","m","u","a","7","l">>

Bit(x, k) == (x \div (2 ^ k)) % 2
Xor5 == [x \in 0..31 |-> [y \in 0..31 |->
            ((Bit(x, 0) + Bit(y, 0)) % 2)
          + ((Bit(x, 1) + Bit(y, 1)) % 2) * 2
          + ((Bit(x, 2) + Bit(y, 2)) % 2) * 4
          + ((Bit(x, 3) + Bit(y, 3)) % 2) * 8
          + ((Bit(x, 4) + Bit(y, 4)) % 2) * 16]]

\* A 30-bit checksum register is six 5-bit groups, most significant first.
Xor30(x, y) == <<Xor5[x[1]][y[1]], Xor5[x[2]][y[2]], Xor5[x[3]][y[3]],
                 Xor5[x[4]][y[4]], Xor5[x[5]][y[5]], Xor5[x[6]][y[6]]>>
Zero30 == <<0, 0, 0, 0, 0, 0>>
One30 == <<0, 0, 0, 0, 0, 1>>

\* GEN = 3b6a57b2, 26508e6d, 1ea119fa, 3d4233dd, 2a1462b3
GEN == << <<29, 22, 20, 21, 29, 18>>, <<19, 5, 1, 3, 19, 13>>, <<15, 10, 2, 6, 15, 26>>,
          <<30, 20, 4, 12, 30, 29>>, <<21, 1, 8, 24, 21, 19>> >>
GenSel(b, i) == IF Bit(b, i - 1) = 1 THEN GEN[i] ELSE Zero30
GenFor == [b \in 0..31 |->
            Xor30(GenSel(b, 1), Xor30(GenSel(b, 2), Xor30(GenSel(b, 3),
                Xor30(GenSel(b, 4), GenSel(b, 5)))))]

polymod(values) ==
    LET step(chk, i) ==
            Xor30(<<chk[2], chk[3], chk[4], chk[5], chk[6], values[i]>>, GenFor[chk[1]])
    IN FoldRange(step, One30, 1, Len(values))

hrp_expand(hrp) ==
    [i \in 1..Len(hrp) |-> AsciiCode(hrp[i]) \div 32] \o <<0>> \o
    [i \in 1..Len(hrp) |-> AsciiCode(hrp[i]) % 32]

create_checksum(hrp, data) ==
    Xor30(polymod(hrp_expand(hrp) \o data \o Zero30), One30)
verify_checksum(hrp, data) == polymod(hrp_expand(hrp) \o data) = One30

\* Bech32Writer: the prefix as given, the separator, the data and the checksum.
bech32_encode(hrp, data) ==
    hrp \o <<"1">> \o [i \in 1..(Len(data) + 6) |->
        CHARSET[(data \o create_checksum(hrp, data))[i] + 1]]

\* The bits of a sequence of w-bit groups, most significant first.
BitsOf(groups, w) ==
    [i \in 1..(Len(groups) * w) |-> Bit(groups[((i - 1) \div w) + 1], w - 1 - ((i - 1) % w))]
RECURSIVE GroupValue(_, _, _)
GroupValue(bits, from, w) ==
    IF w = 0 THEN 0
    ELSE (IF from <= Len(bits) THEN bits[from] ELSE 0) * (2 ^ (w - 1))
         + GroupValue(bits, from + 1, w - 1)

\* ToBase32: 8-bit bytes to 5-bit groups, the last group padded with zero bits.
to_base32(bytes) ==
    LET bits == BitsOf(bytes, 8)
        n == (Len(bits) + 4) \div 5
    IN [i \in 1..n |-> GroupValue(bits, 5 * (i - 1) + 1, 5)]

\* FromBase32 (convert_bits 5 -> 8 without padding): fails when five or more
\* bits are left over or the left-over bits are not zero.
from_base32_ok(groups) ==
    LET bits == BitsOf(groups, 5)
        n == Len(bits) \div 8
    IN /\ Len(bits) - 8 * n < 5
       /\ \A i \in (8 * n + 1)..Len(bits) : bits[i] = 0
from_base32(groups) ==
    LET bits == BitsOf(groups, 5)
        n == Len(bits) \div 8
    IN [i \in 1..n |-> GroupValue(bits, 8 * (i - 1) + 1, 8)]

\* The case a text commits to: "lower", "upper", "none", or "mixed".
CaseOf(t) ==
    LET lo == \E i \in DOMAIN t : IsLower(t[i])
        up == \E i \in DOMAIN t : IsUpper(t[i])
    IN IF lo /\ up THEN "mixed" ELSE IF lo THEN "lower" ELSE IF up THEN "upper" ELSE "none"

CharsetValue(c) == IndexOf(CHARSET, ToLowerChar(c)) - 1
InCharset(c) == ToLowerChar(c) \in Range(CHARSET)

\* bech32::decode: [ok, err, hrp, data], the data without its checksum.
bech32_decode(t) ==
    LET sep == RFindOne(t)
        raw_hrp == SubSeq(t, 1, sep - 1)
        raw_data == SubSeq(t, sep + 1, Len(t))
        fail(sub) == [ok |-> FALSE, err |-> Bech32Error(sub), hrp |-> <<>>, data |-> <<>>]
        \* the first data character that is rejected, 0 when none is
        bad == IF \E i \in DOMAIN raw_data :
                     \/ ~InCharset(raw_data[i])
                     \/ CaseOf(raw_hrp \o SubSeq(raw_data, 1, i)) = "mixed"
               THEN CHOOSE i \in DOMAIN raw_data :
                     /\ \/ ~InCharset(raw_data[i])
                        \/ CaseOf(raw_hrp \o SubSeq(raw_data, 1, i)) = "mixed"
                     /\ \A j \in 1..(i - 1) :
                            /\ InCharset(raw_data[j])
                            /\ CaseOf(raw_hrp \o SubSeq(raw_data, 1, j)) # "mixed"
               ELSE 0
        hrp_lower == ToLowerStr(raw_hrp)
        data == [i \in DOMAIN raw_data |-> CharsetValue(raw_data[i])]
    IN IF Len(t) < 8 THEN fail("InvalidLength")
       ELSE IF sep = 0 THEN fail("MissingSeparator")
       ELSE IF Len(raw_data) < 6 THEN fail("InvalidLength")
       ELSE IF Len(raw_hrp) = 0 THEN fail("InvalidLength")
       ELSE IF CaseOf(raw_hrp) = "mixed" THEN fail("MixedCase")
       ELSE IF bad # 0
            THEN (IF CaseOf(raw_hrp \o SubSeq(raw_data, 1, bad)) = "mixed"
                  THEN fail("MixedCase") ELSE fail("InvalidChar"))
       ELSE IF ~verify_checksum(hrp_lower, data) THEN fail("InvalidChecksum")
       ELSE [ok |-> TRUE, err |-> NoErr, hrp |-> hrp_lower,
             data |-> SubSeq(data, 1, Len(data) - 6)]

-----------------------------------------------------------------------------
(* util::base58 (Base58Check)                                              *)

BASE58_CHARS ==
    <<"1","2","3","4","5","6","7","8","9","A","B","C","D","E","F","G","H","J","K",
      "L","M","N","P","Q","R","S","T","U","V","W","X","Y","Z","a","b","c","d","e",
      "f","g","h","i","j","k","m","n","o","p","q","r","s","t","u","v","w","x","y","z">>
Base58Digit(c) == IndexOf(BASE58_CHARS, c) - 1

\* The number of leading elements of seq equal to x.
LeadingRun(seq, x) ==
    IF \A i \in DOMAIN seq : seq[i] = x THEN Len(seq)
    ELSE (CHOOSE i \in DOMAIN seq : seq[i] # x /\ \A j \in 1..(i - 1) : seq[j] = x) - 1
StripLeading(seq, x) == SubSeq(seq, LeadingRun(seq, x) + 1, Len(seq))

\* A base-256 number divided by 58: <<quotient, <<remainder>> >>.
DivMod58(num) ==
    LET step(st, i) ==
            LET cur == st[2][1] * 256 + num[i]
            IN <<Append(st[1], cur \div 58), <<cur % 58>> >>
    IN FoldRange(step, << <<>>, <<0>> >>, 1, Len(num))

\* base58::encode_slice: a '1' per leading zero byte, then the digits of the rest.
base58_encode(bytes) ==
    LET zeros == LeadingRun(bytes, 0)
        \* st = <<what is left of the number, the digits found, least significant last>>
        step(st, k) ==
            IF st[1] = <<>> THEN st
            ELSE LET qr == DivMod58(st[1])
                 IN <<StripLeading(qr[1], 0), <<BASE58_CHARS[qr[2][1] + 1]>> \o st[2]>>
        done == FoldRange(step, <<StripLeading(bytes, 0), <<>> >>, 1, (Len(bytes) * 7) \div 5 + 1)
    IN [i \in 1..zeros |-> "1"] \o done[2]

\* X = X * 58 + d on a fixed-width base-256 number.
MulAdd58(scratch, d) ==
    LET n == Len(scratch)
        step(st, k) ==
            LET cur == st[2][1] + scratch[n + 1 - k] * 58
            IN << <<cur % 256>> \o st[1], <<cur \div 256>> >>
    IN FoldRange(step, << <<>>, <<d>> >>, 1, n)[1]

\* base58::from: [ok, err, bytes].
base58_from(data) ==
    LET bad == { i \in DOMAIN data : data[i] \notin Range(BASE58_CHARS) }
        first == CHOOSE i \in bad : \A j \in bad : i <= j
        width == 1 + (Len(data) * 11) \div 15
        step(scratch, i) == MulAdd58(scratch, Base58Digit(data[i]))
        scratch == FoldRange(step, [i \in 1..width |-> 0], 1, Len(data))
    IN IF bad # {}
       THEN [ok |-> FALSE, err |-> Base58Error("BadByte", AsciiCode(data[first]), NoBytes),
             bytes |-> NoBytes]
       ELSE [ok |-> TRUE, err |-> NoErr,
             bytes |-> [i \in 1..LeadingRun(data, "1") |-> 0] \o StripLeading(scratch, 0)]

-----------------------------------------------------------------------------
(* Hash engines and the inputs the model draws from                        *)

\* The keys of tests::test_p2wpkh and tests::test_p2shwpkh as curve points.
PublicKeys ==
    << [x |-> <<59,200,200,60,82,223,87,18,34,154,47,114,32,109,144,25,35,102,195,100,40,203,12,18,182,175,152,50,77,151,191,188>>,
        y |-> <<145,156,31,33,172,218,50,219,18,52,59,169,131,191,230,243,200,98,203,125,239,215,61,185,88,14,122,3,44,184,95,1>>],
       [x |-> <<108,70,139,230,77,34,118,28,48,205,47,18,203,199,222,37,93,89,45,121,4,177,186,176,114,54,137,124,196,194,231,102>>,
        y |-> <<30,56,53,161,118,32,170,115,248,128,24,67,59,1,44,150,58,114,129,232,10,72,203,64,243,93,61,146,104,220,118,242>>] >>
\* The scripts of tests::test_p2wsh and tests::test_p2shwsh.
InputScripts ==
    << <<82,33,3,117,224,14,183,46,41,218,130,184,147,103,148,127,41,239,52,175,183,94,134,84,246,234,54,142,10,205,253,146,151,107,124,33,3,161,178,99,19,244,48,196,177,91,177,253,206,102,50,7,101,157,140,172,116,154,14,83,215,14,255,1,135,68,150,254,255,33,3,201,109,73,91,253,213,186,65,69,227,224,70,254,228,94,132,168,164,138,208,91,216,219,179,149,192,17,163,44,249,248,128,83,174>>,
       <<82,33,3,229,82,157,142,170,61,85,153,3,173,178,232,129,235,6,200,106,194,87,79,250,80,60,69,244,233,66,226,166,147,179,62,33,2,229,241,15,205,205,186,178,17,224,175,106,72,31,85,50,83,110,198,26,95,219,247,24,55,112,207,134,128,254,114,157,129,82,174>> >>
\* 20-byte hashes: the one of tests::test_p2pkh_address_58, one whose Litecoin
\* address begins LTC1, one whose Dash address begins XxX1, and zero.
HashSamples ==
    << <<22,44,94,167,28,11,35,245,185,2,46,240,71,196,168,100,112,165,176,112>>,
       <<87,98,121,109,104,239,122,116,146,173,84,131,144,58,174,83,67,78,6,140>>,
       <<239,118,70,127,67,89,168,63,15,174,178,13,169,224,211,14,2,38,116,94>>,
       <<0,0,0,0,0,0,0,0,0,0,0,0,0,0,0,0,0,0,0,0>> >>
\* HASH160 (RIPEMD-160 of SHA-256) of the byte strings the model hashes.
Hash160Table ==
    { <<<<3,59,200,200,60,82,223,87,18,34,154,47,114,32,109,144,25,35,102,195,100,40,203,12,18,182,175,152,50,77,151,191,188>>,
        <<96,153,105,78,160,140,224,32,24,108,140,199,212,117,67,58,148,105,44,145>>>>,
      <<<<4,59,200,200,60,82,223,87,18,34,154,47,114,32,109,144,25,35,102,195,100,40,203,12,18,182,175,152,50,77,151,191,188,145,156,31,33,172,218,50,219,18,52,59,169,131,191,230,243,200,98,203,125,239,215,61,185,88,14,122,3,44,184,95,1>>,
        <<15,201,69,158,119,215,103,201,225,184,227,25,152,186,33,167,77,245,29,177>>>>,
      <<<<2,108,70,139,230,77,34,118,28,48,205,47,18,203,199,222,37,93,89,45,121,4,177,186,176,114,54,137,124,196,194,231,102>>,
        <<23,122,158,214,212,8,40,104,241,126,208,207,102,54,74,216,217,95,252,77>>>>,
      <<<<4,108,70,139,230,77,34,118,28,48,205,47,18,203,199,222,37,93,89,45,121,4,177,186,176,114,54,137,124,196,194,231,102,30,56,53,161,118,32,170,115,248,128,24,67,59,1,44,150,58,114,129,232,10,72,203,64,243,93,61,146,104,220,118,242>>,
        <<209,3,233,25,34,88,59,19,5,230,133,65,83,55,217,233,64,45,202,122>>>>,
      <<<<82,33,3,117,224,14,183,46,41,218,130,184,147,103,148,127,41,239,52,175,183,94,134,84,246,234,54,142,10,205,253,146,151,107,124,33,3,161,178,99,19,244,48,196,177,91,177,253,206,102,50,7,101,157,140,172,116,154,14,83,215,14,255,1,135,68,150,254,255,33,3,201,109,73,91,253,213,186,65,69,227,224,70,254,228,94,132,168,164,138,208,91,216,219,179,149,192,17,163,44,249,248,128,83,174>>,
        <<200,79,240,134,193,31,94,35,86,56,188,50,211,232,72,86,218,68,235,243>>>>,
      <<<<82,33,3,229,82,157,142,170,61,85,153,3,173,178,232,129,235,6,200,106,194,87,79,250,80,60,69,244,233,66,226,166,147,179,62,33,2,229,241,15,205,205,186,178,17,224,175,106,72,31,85,50,83,110,198,26,95,219,247,24,55,112,207,134,128,254,114,157,129,82,174>>,
        <<0,224,158,233,174,110,7,150,231,216,97,49,150,32,37,39,169,182,148,192>>>>,
      <<<<0,20,96,153,105,78,160,140,224,32,24,108,140,199,212,117,67,58,148,105,44,145>>,
        <<147,68,145,160,39,27,178,228,39,243,66,97,111,215,115,107,65,113,77,249>>>>,
      <<<<0,20,23,122,158,214,212,8,40,104,241,126,208,207,102,54,74,216,217,95,252,77>>,
        <<246,178,81,124,168,47,27,14,212,56,48,208,117,6,157,106,160,182,149,202>>>>,
      <<<<0,32,112,26,141,64,28,132,251,19,230,186,241,105,213,150,132,225,122,189,159,162,22,200,204,91,159,198,61,98,47,248,197,141>>,
        <<235,122,89,56,85,188,221,227,222,27,171,38,121,118,66,130,128,209,234,124>>>>,
      <<<<0,32,36,45,1,3,167,165,202,187,187,84,62,215,140,58,49,178,110,192,221,98,12,84,91,133,207,90,164,120,71,72,214,141>>,
        <<49,229,67,46,200,1,129,78,145,23,37,212,110,184,60,32,25,20,157,194>>>> }
\* SHA-256 of the scripts the model hashes.
Sha256Table ==
    { <<<<82,33,3,117,224,14,183,46,41,218,130,184,147,103,148,127,41,239,52,175,183,94,134,84,246,234,54,142,10,205,253,146,151,107,124,33,3,161,178,99,19,244,48,196,177,91,177,253,206,102,50,7,101,157,140,172,116,154,14,83,215,14,255,1,135,68,150,254,255,33,3,201,109,73,91,253,213,186,65,69,227,224,70,254,228,94,132,168,164,138,208,91,216,219,179,149,192,17,163,44,249,248,128,83,174>>,
        <<112,26,141,64,28,132,251,19,230,186,241,105,213,150,132,225,122,189,159,162,22,200,204,91,159,198,61,98,47,248,197,141>>>>,
      <<<<82,33,3,229,82,157,142,170,61,85,153,3,173,178,232,129,235,6,200,106,194,87,79,250,80,60,69,244,233,66,226,166,147,179,62,33,2,229,241,15,205,205,186,178,17,224,175,106,72,31,85,50,83,110,198,26,95,219,247,24,55,112,207,134,128,254,114,157,129,82,174>>,
        <<36,45,1,3,167,165,202,187,187,84,62,215,140,58,49,178,110,192,221,98,12,84,91,133,207,90,164,120,71,72,214,141>>>> }
\* The first four bytes of SHA-256d of the versioned hashes the model encodes.
Sha256dTable ==
    { <<<<0,96,153,105,78,160,140,224,32,24,108,140,199,212,117,67,58,148,105,44,145>>, <<150,213,56,57>>>>,
      <<<<5,96,153,105,78,160,140,224,32,24,108,140,199,212,117,67,58,148,105,44,145>>, <<203,255,184,69>>>>,
      <<<<111,96,153,105,78,160,140,224,32,24,108,140,199,212,117,67,58,148,105,44,145>>, <<40,224,180,140>>>>,
      <<<<196,96,153,105,78,160,140,224,32,24,108,140,199,212,117,67,58,148,105,44,145>>, <<44,229,51,253>>>>,
      <<<<48,96,153,105,78,160,140,224,32,24,108,140,199,212,117,67,58,148,105,44,145>>, <<175,60,193,241>>>>,
      <<<<50,96,153,105,78,160,140,224,32,24,108,140,199,212,117,67,58,148,105,44,145>>, <<83,202,122,130>>>>,
      <<<<58,96,153,105,78,160,140,224,32,24,108,140,199,212,117,67,58,148,105,44,145>>, <<84,104,248,205>>>>,
      <<<<76,96,153,105,78,160,140,224,32,24,108,140,199,212,117,67,58,148,105,44,145>>, <<118,191,170,62>>>>,
      <<<<16,96,153,105,78,160,140,224,32,24,108,140,199,212,117,67,58,148,105,44,145>>, <<81,71,39,200>>>>,
      <<<<140,96,153,105,78,160,140,224,32,24,108,140,199,212,117,67,58,148,105,44,145>>, <<14,38,116,70>>>>,
      <<<<19,96,153,105,78,160,140,224,32,24,108,140,199,212,117,67,58,148,105,44,145>>, <<14,74,220,114>>>>,
      <<<<28,184,96,153,105,78,160,140,224,32,24,108,140,199,212,117,67,58,148,105,44,145>>, <<207,54,239,50>>>>,
      <<<<28,189,96,153,105,78,160,140,224,32,24,108,140,199,212,117,67,58,148,105,44,145>>, <<36,89,224,19>>>>,
      <<<<29,37,96,153,105,78,160,140,224,32,24,108,140,199,212,117,67,58,148,105,44,145>>, <<153,3,94,165>>>>,
      <<<<28,186,96,153,105,78,160,140,224,32,24,108,140,199,212,117,67,58,148,105,44,145>>, <<37,90,153,133>>>>,
      <<<<30,96,153,105,78,160,140,224,32,24,108,140,199,212,117,67,58,148,105,44,145>>, <<100,43,53,165>>>>,
      <<<<22,96,153,105,78,160,140,224,32,24,108,140,199,212,117,67,58,148,105,44,145>>, <<112,174,17,182>>>>,
      <<<<113,96,153,105,78,160,140,224,32,24,108,140,199,212,117,67,58,148,105,44,145>>, <<40,214,210,155>>>>,
      <<<<0,15,201,69,158,119,215,103,201,225,184,227,25,152,186,33,167,77,245,29,177>>, <<53,169,97,56>>>>,
      <<<<5,15,201,69,158,119,215,103,201,225,184,227,25,152,186,33,167,77,245,29,177>>, <<101,182,133,64>>>>,
      <<<<111,15,201,69,158,119,215,103,201,225,184,227,25,152,186,33,167,77,245,29,177>>, <<159,99,154,171>>>>,
      <<<<196,15,201,69,158,119,215,103,201,225,184,227,25,152,186,33,167,77,245,29,177>>, <<50,143,40,33>>>>,
      <<<<48,15,201,69,158,119,215,103,201,225,184,227,25,152,186,33,167,77,245,29,177>>, <<96,44,37,17>>>>,
      <<<<50,15,201,69,158,119,215,103,201,225,184,227,25,152,186,33,167,77,245,29,177>>, <<12,80,232,58>>>>,
      <<<<58,15,201,69,158,119,215,103,201,225,184,227,25,152,186,33,167,77,245,29,177>>, <<12,133,218,166>>>>,
      <<<<76,15,201,69,158,119,215,103,201,225,184,227,25,152,186,33,167,77,245,29,177>>, <<162,141,48,110>>>>,
      <<<<16,15,201,69,158,119,215,103,201,225,184,227,25,152,186,33,167,77,245,29,177>>, <<175,121,115,74>>>>,
      <<<<140,15,201,69,158,119,215,103,201,225,184,227,25,152,186,33,167,77,245,29,177>>, <<170,226,193,253>>>>,
      <<<<19,15,201,69,158,119,215,103,201,225,184,227,25,152,186,33,167,77,245,29,177>>, <<201,118,1,41>>>>,
      <<<<28,184,15,201,69,158,119,215,103,201,225,184,227,25,152,186,33,167,77,245,29,177>>, <<129,74,110,31>>>>,
      <<<<28,189,15,201,69,158,119,215,103,201,225,184,227,25,152,186,33,167,77,245,29,177>>, <<192,198,177,17>>>>,
      <<<<29,37,15,201,69,158,119,215,103,201,225,184,227,25,152,186,33,167,77,245,29,177>>, <<192,50,136,160>>>>,
      <<<<28,186,15,201,69,158,119,215,103,201,225,184,227,25,152,186,33,167,77,245,29,177>>, <<100,249,172,93>>>>,
      <<<<30,15,201,69,158,119,215,103,201,225,184,227,25,152,186,33,167,77,245,29,177>>, <<124,135,120,17>>>>,
      <<<<22,15,201,69,158,119,215,103,201,225,184,227,25,152,186,33,167,77,245,29,177>>, <<248,73,120,216>>>>,
      <<<<113,15,201,69,158,119,215,103,201,225,184,227,25,152,186,33,167,77,245,29,177>>, <<50,146,197,12>>>>,
      <<<<0,23,122,158,214,212,8,40,104,241,126,208,207,102,54,74,216,217,95,252,77>>, <<168,58,126,138>>>>,
      <<<<5,23,122,158,214,212,8,40,104,241,126,208,207,102,54,74,216,217,95,252,77>>, <<73,64,40,106>>>>,
      <<<<111,23,122,158,214,212,8,40,104,241,126,208,207,102,54,74,216,217,95,252,77>>, <<134,130,18,227>>>>,
      <<<<196,23,122,158,214,212,8,40,104,241,126,208,207,102,54,74,216,217,95,252,77>>, <<131,74,119,167>>>>,
      <<<<48,23,122,158,214,212,8,40,104,241,126,208,207,102,54,74,216,217,95,252,77>>, <<56,152,237,99>>>>,
      <<<<50,23,122,158,214,212,8,40,104,241,126,208,207,102,54,74,216,217,95,252,77>>, <<23,10,249,16>>>>,
      <<<<58,23,122,158,214,212,8,40,104,241,126,208,207,102,54,74,216,217,95,252,77>>, <<5,162,246,235>>>>,
      <<<<76,23,122,158,214,212,8,40,104,241,126,208,207,102,54,74,216,217,95,252,77>>, <<226,81,174,199>>>>,
      <<<<16,23,122,158,214,212,8,40,104,241,126,208,207,102,54,74,216,217,95,252,77>>, <<38,214,186,161>>>>,
      <<<<140,23,122,158,214,212,8,40,104,241,126,208,207,102,54,74,216,217,95,252,77>>, <<191,81,83,119>>>>,
      <<<<19,23,122,158,214,212,8,40,104,241,126,208,207,102,54,74,216,217,95,252,77>>, <<160,160,146,98>>>>,
      <<<<28,184,23,122,158,214,212,8,40,104,241,126,208,207,102,54,74,216,217,95,252,77>>, <<11,205,145,134>>>>,
      <<<<28,189,23,122,158,214,212,8,40,104,241,126,208,207,102,54,74,216,217,95,252,77>>, <<108,162,55,51>>>>,
      <<<<29,37,23,122,158,214,212,8,40,104,241,126,208,207,102,54,74,216,217,95,252,77>>, <<127,163,253,231>>>>,
      <<<<28,186,23,122,158,214,212,8,40,104,241,126,208,207,102,54,74,216,217,95,252,77>>, <<154,237,208,82>>>>,
      <<<<30,23,122,158,214,212,8,40,104,241,126,208,207,102,54,74,216,217,95,252,77>>, <<232,237,240,161>>>>,
      <<<<22,23,122,158,214,212,8,40,104,241,126,208,207,102,54,74,216,217,95,252,77>>, <<202,77,17,138>>>>,
      <<<<113,23,122,158,214,212,8,40,104,241,126,208,207,102,54,74,216,217,95,252,77>>, <<238,12,191,128>>>>,
      <<<<0,209,3,233,25,34,88,59,19,5,230,133,65,83,55,217,233,64,45,202,122>>, <<146,70,171,53>>>>,
      <<<<5,209,3,233,25,34,88,59,19,5,230,133,65,83,55,217,233,64,45,202,122>>, <<132,155,65,30>>>>,
      <<<<111,209,3,233,25,34,88,59,19,5,230,133,65,83,55,217,233,64,45,202,122>>, <<16,32,255,17>>>>,
      <<<<196,209,3,233,25,34,88,59,19,5,230,133,65,83,55,217,233,64,45,202,122>>, <<184,224,83,102>>>>,
      <<<<48,209,3,233,25,34,88,59,19,5,230,133,65,83,55,217,233,64,45,202,122>>, <<187,36,48,59>>>>,
      <<<<50,209,3,233,25,34,88,59,19,5,230,133,65,83,55,217,233,64,45,202,122>>, <<201,188,203,164>>>>,
      <<<<58,209,3,233,25,34,88,59,19,5,230,133,65,83,55,217,233,64,45,202,122>>, <<36,150,106,236>>>>,
      <<<<76,209,3,233,25,34,88,59,19,5,230,133,65,83,55,217,233,64,45,202,122>>, <<92,113,161,118>>>>,
      <<<<16,209,3,233,25,34,88,59,19,5,230,133,65,83,55,217,233,64,45,202,122>>, <<66,148,167,61>>>>,
      <<<<140,209,3,233,25,34,88,59,19,5,230,133,65,83,55,217,233,64,45,202,122>>, <<8,167,212,21>>>>,
      <<<<19,209,3,233,25,34,88,59,19,5,230,133,65,83,55,217,233,64,45,202,122>>, <<12,255,150,65>>>>,
      <<<<28,184,209,3,233,25,34,88,59,19,5,230,133,65,83,55,217,233,64,45,202,122>>, <<179,245,59,61>>>>,
      <<<<28,189,209,3,233,25,34,88,59,19,5,230,133,65,83,55,217,233,64,45,202,122>>, <<85,224,254,206>>>>,
      <<<<29,37,209,3,233,25,34,88,59,19,5,230,133,65,83,55,217,233,64,45,202,122>>, <<114,73,144,237>>>>,
      <<<<28,186,209,3,233,25,34,88,59,19,5,230,133,65,83,55,217,233,64,45,202,122>>, <<222,224,122,85>>>>,
      <<<<30,209,3,233,25,34,88,59,19,5,230,133,65,83,55,217,233,64,45,202,122>>, <<53,177,27,116>>>>,
      <<<<22,209,3,233,25,34,88,59,19,5,230,133,65,83,55,217,233,64,45,202,122>>, <<64,66,188,96>>>>,
      <<<<113,209,3,233,25,34,88,59,19,5,230,133,65,83,55,217,233,64,45,202,122>>, <<227,165,204,34>>>>,
      <<<<0,200,79,240,134,193,31,94,35,86,56,188,50,211,232,72,86,218,68,235,243>>, <<76,45,30,78>>>>,
      <<<<5,200,79,240,134,193,31,94,35,86,56,188,50,211,232,72,86,218,68,235,243>>, <<191,61,15,147>>>>,
      <<<<111,200,79,240,134,193,31,94,35,86,56,188,50,211,232,72,86,218,68,235,243>>, <<97,65,224,38>>>>,
      <<<<196,200,79,240,134,193,31,94,35,86,56,188,50,211,232,72,86,218,68,235,243>>, <<171,212,90,169>>>>,
      <<<<48,200,79,240,134,193,31,94,35,86,56,188,50,211,232,72,86,218,68,235,243>>, <<53,98,17,43>>>>,
      <<<<50,200,79,240,134,193,31,94,35,86,56,188,50,211,232,72,86,218,68,235,243>>, <<221,50,116,191>>>>,
      <<<<58,200,79,240,134,193,31,94,35,86,56,188,50,211,232,72,86,218,68,235,243>>, <<9,128,150,13>>>>,
      <<<<76,200,79,240,134,193,31,94,35,86,56,188,50,211,232,72,86,218,68,235,243>>, <<34,241,40,158>>>>,
      <<<<16,200,79,240,134,193,31,94,35,86,56,188,50,211,232,72,86,218,68,235,243>>, <<43,139,95,238>>>>,
      <<<<140,200,79,240,134,193,31,94,35,86,56,188,50,211,232,72,86,218,68,235,243>>, <<68,142,117,112>>>>,
      <<<<19,200,79,240,134,193,31,94,35,86,56,188,50,211,232,72,86,218,68,235,243>>, <<67,25,210,0>>>>,
      <<<<28,184,200,79,240,134,193,31,94,35,86,56,188,50,211,232,72,86,218,68,235,243>>, <<141,211,188,189>>>>,
      <<<<28,189,200,79,240,134,193,31,94,35,86,56,188,50,211,232,72,86,218,68,235,243>>, <<187,123,158,99>>>>,
      <<<<29,37,200,79,240,134,193,31,94,35,86,56,188,50,211,232,72,86,218,68,235,243>>, <<64,239,138,87>>>>,
      <<<<28,186,200,79,240,134,193,31,94,35,86,56,188,50,211,232,72,86,218,68,235,243>>, <<48,68,202,122>>>>,
      <<<<30,200,79,240,134,193,31,94,35,86,56,188,50,211,232,72,86,218,68,235,243>>, <<193,25,211,205>>>>,
      <<<<22,200,79,240,134,193,31,94,35,86,56,188,50,211,232,72,86,218,68,235,243>>, <<201,73,75,160>>>>,
      <<<<113,200,79,240,134,193,31,94,35,86,56,188,50,211,232,72,86,218,68,235,243>>, <<95,194,90,241>>>>,
      <<<<0,0,224,158,233,174,110,7,150,231,216,97,49,150,32,37,39,169,182,148,192>>, <<109,21,249,104>>>>,
      <<<<5,0,224,158,233,174,110,7,150,231,216,97,49,150,32,37,39,169,182,148,192>>, <<81,155,160,127>>>>,
      <<<<111,0,224,158,233,174,110,7,150,231,216,97,49,150,32,37,39,169,182,148,192>>, <<160,247,120,144>>>>,
      <<<<196,0,224,158,233,174,110,7,150,231,216,97,49,150,32,37,39,169,182,148,192>>, <<198,37,1,119>>>>,
      <<<<48,0,224,158,233,174,110,7,150,231,216,97,49,150,32,37,39,169,182,148,192>>, <<171,214,3,15>>>>,
      <<<<50,0,224,158,233,174,110,7,150,231,216,97,49,150,32,37,39,169,182,148,192>>, <<247,145,44,91>>>>,
      <<<<58,0,224,158,233,174,110,7,150,231,216,97,49,150,32,37,39,169,182,148,192>>, <<40,69,79,167>>>>,
      <<<<76,0,224,158,233,174,110,7,150,231,216,97,49,150,32,37,39,169,182,148,192>>, <<196,46,247,9>>>>,
      <<<<16,0,224,158,233,174,110,7,150,231,216,97,49,150,32,37,39,169,182,148,192>>, <<79,102,179,240>>>>,
      <<<<140,0,224,158,233,174,110,7,150,231,216,97,49,150,32,37,39,169,182,148,192>>, <<25,4,33,96>>>>,
      <<<<19,0,224,158,233,174,110,7,150,231,216,97,49,150,32,37,39,169,182,148,192>>, <<101,51,159,47>>>>,
      <<<<28,184,0,224,158,233,174,110,7,150,231,216,97,49,150,32,37,39,169,182,148,192>>, <<194,72,61,23>>>>,
      <<<<28,189,0,224,158,233,174,110,7,150,231,216,97,49,150,32,37,39,169,182,148,192>>, <<64,66,94,10>>>>,
      <<<<29,37,0,224,158,233,174,110,7,150,231,216,97,49,150,32,37,39,169,182,148,192>>, <<230,59,142,74>>>>,
      <<<<28,186,0,224,158,233,174,110,7,150,231,216,97,49,150,32,37,39,169,182,148,192>>, <<91,72,217,138>>>>,
      <<<<30,0,224,158,233,174,110,7,150,231,216,97,49,150,32,37,39,169,182,148,192>>, <<219,223,133,89>>>>,
      <<<<22,0,224,158,233,174,110,7,150,231,216,97,49,150,32,37,39,169,182,148,192>>, <<30,255,245,20>>>>,
      <<<<113,0,224,158,233,174,110,7,150,231,216,97,49,150,32,37,39,169,182,148,192>>, <<184,41,87,251>>>>,
      <<<<0,147,68,145,160,39,27,178,228,39,243,66,97,111,215,115,107,65,113,77,249>>, <<88,244,132,44>>>>,
      <<<<5,147,68,145,160,39,27,178,228,39,243,66,97,111,215,115,107,65,113,77,249>>, <<150,39,242,89>>>>,
      <<<<111,147,68,145,160,39,27,178,228,39,243,66,97,111,215,115,107,65,113,77,249>>, <<199,155,203,54>>>>,
      <<<<196,147,68,145,160,39,27,178,228,39,243,66,97,111,215,115,107,65,113,77,249>>, <<241,26,253,85>>>>,
      <<<<48,147,68,145,160,39,27,178,228,39,243,66,97,111,215,115,107,65,113,77,249>>, <<251,247,243,85>>>>,
      <<<<50,147,68,145,160,39,27,178,228,39,243,66,97,111,215,115,107,65,113,77,249>>, <<34,225,240,50>>>>,
      <<<<58,147,68,145,160,39,27,178,228,39,243,66,97,111,215,115,107,65,113,77,249>>, <<124,126,245,153>>>>,
      <<<<76,147,68,145,160,39,27,178,228,39,243,66,97,111,215,115,107,65,113,77,249>>, <<119,103,245,26>>>>,
      <<<<16,147,68,145,160,39,27,178,228,39,243,66,97,111,215,115,107,65,113,77,249>>, <<154,170,231,109>>>>,
      <<<<140,147,68,145,160,39,27,178,228,39,243,66,97,111,215,115,107,65,113,77,249>>, <<175,76,107,134>>>>,
      <<<<19,147,68,145,160,39,27,178,228,39,243,66,97,111,215,115,107,65,113,77,249>>, <<101,74,72,248>>>>,
      <<<<28,184,147,68,145,160,39,27,178,228,39,243,66,97,111,215,115,107,65,113,77,249>>, <<143,153,123,254>>>>,
      <<<<28,189,147,68,145,160,39,27,178,228,39,243,66,97,111,215,115,107,65,113,77,249>>, <<60,129,150,15>>>>,
      <<<<29,37,147,68,145,160,39,27,178,228,39,243,66,97,111,215,115,107,65,113,77,249>>, <<17,251,96,41>>>>,
      <<<<28,186,147,68,145,160,39,27,178,228,39,243,66,97,111,215,115,107,65,113,77,249>>, <<12,111,230,205>>>>,
      <<<<30,147,68,145,160,39,27,178,228,39,243,66,97,111,215,115,107,65,113,77,249>>, <<255,133,187,201>>>>,
      <<<<22,147,68,145,160,39,27,178,228,39,243,66,97,111,215,115,107,65,113,77,249>>, <<183,194,245,72>>>>,
      <<<<113,147,68,145,160,39,27,178,228,39,243,66,97,111,215,115,107,65,113,77,249>>, <<27,39,52,248>>>>,
      <<<<0,246,178,81,124,168,47,27,14,212,56,48,208,117,6,157,106,160,182,149,202>>, <<45,78,123,140>>>>,
      <<<<5,246,178,81,124,168,47,27,14,212,56,48,208,117,6,157,106,160,182,149,202>>, <<16,24,35,201>>>>,
      <<<<111,246,178,81,124,168,47,27,14,212,56,48,208,117,6,157,106,160,182,149,202>>, <<147,36,76,172>>>>,
      <<<<196,246,178,81,124,168,47,27,14,212,56,48,208,117,6,157,106,160,182,149,202>>, <<163,166,160,202>>>>,
      <<<<48,246,178,81,124,168,47,27,14,212,56,48,208,117,6,157,106,160,182,149,202>>, <<251,52,22,93>>>>,
      <<<<50,246,178,81,124,168,47,27,14,212,56,48,208,117,6,157,106,160,182,149,202>>, <<155,81,17,63>>>>,
      <<<<58,246,178,81,124,168,47,27,14,212,56,48,208,117,6,157,106,160,182,149,202>>, <<158,59,3,145>>>>,
      <<<<76,246,178,81,124,168,47,27,14,212,56,48,208,117,6,157,106,160,182,149,202>>, <<115,40,35,19>>>>,
      <<<<16,246,178,81,124,168,47,27,14,212,56,48,208,117,6,157,106,160,182,149,202>>, <<140,205,30,209>>>>,
      <<<<140,246,178,81,124,168,47,27,14,212,56,48,208,117,6,157,106,160,182,149,202>>, <<42,142,120,108>>>>,
      <<<<19,246,178,81,124,168,47,27,14,212,56,48,208,117,6,157,106,160,182,149,202>>, <<30,122,190,128>>>>,
      <<<<28,184,246,178,81,124,168,47,27,14,212,56,48,208,117,6,157,106,160,182,149,202>>, <<155,57,22,9>>>>,
      <<<<28,189,246,178,81,124,168,47,27,14,212,56,48,208,117,6,157,106,160,182,149,202>>, <<96,60,91,36>>>>,
      <<<<29,37,246,178,81,124,168,47,27,14,212,56,48,208,117,6,157,106,160,182,149,202>>, <<144,157,161,129>>>>,
      <<<<28,186,246,178,81,124,168,47,27,14,212,56,48,208,117,6,157,106,160,182,149,202>>, <<205,197,109,37>>>>,
      <<<<30,246,178,81,124,168,47,27,14,212,56,48,208,117,6,157,106,160,182,149,202>>, <<97,154,168,99>>>>,
      <<<<22,246,178,81,124,168,47,27,14,212,56,48,208,117,6,157,106,160,182,149,202>>, <<224,15,227,76>>>>,
      <<<<113,246,178,81,124,168,47,27,14,212,56,48,208,117,6,157,106,160,182,149,202>>, <<98,114,252,242>>>>,
      <<<<0,235,122,89,56,85,188,221,227,222,27,171,38,121,118,66,130,128,209,234,124>>, <<15,151,74,178>>>>,
      <<<<5,235,122,89,56,85,188,221,227,222,27,171,38,121,118,66,130,128,209,234,124>>, <<176,235,147,192>>>>,
      <<<<111,235,122,89,56,85,188,221,227,222,27,171,38,121,118,66,130,128,209,234,124>>, <<39,208,71,158>>>>,
      <<<<196,235,122,89,56,85,188,221,227,222,27,171,38,121,118,66,130,128,209,234,124>>, <<55,248,251,74>>>>,
      <<<<48,235,122,89,56,85,188,221,227,222,27,171,38,121,118,66,130,128,209,234,124>>, <<236,105,64,226>>>>,
      <<<<50,235,122,89,56,85,188,221,227,222,27,171,38,121,118,66,130,128,209,234,124>>, <<235,96,139,56>>>>,
      <<<<58,235,122,89,56,85,188,221,227,222,27,171,38,121,118,66,130,128,209,234,124>>, <<85,70,28,38>>>>,
      <<<<76,235,122,89,56,85,188,221,227,222,27,171,38,121,118,66,130,128,209,234,124>>, <<225,220,203,118>>>>,
      <<<<16,235,122,89,56,85,188,221,227,222,27,171,38,121,118,66,130,128,209,234,124>>, <<194,77,154,232>>>>,
      <<<<140,235,122,89,56,85,188,221,227,222,27,171,38,121,118,66,130,128,209,234,124>>, <<228,173,37,186>>>>,
      <<<<19,235,122,89,56,85,188,221,227,222,27,171,38,121,118,66,130,128,209,234,124>>, <<210,221,245,199>>>>,
      <<<<28,184,235,122,89,56,85,188,221,227,222,27,171,38,121,118,66,130,128,209,234,124>>, <<178,2,239,85>>>>,
      <<<<28,189,235,122,89,56,85,188,221,227,222,27,171,38,121,118,66,130,128,209,234,124>>, <<212,65,80,228>>>>,
      <<<<29,37,235,122,89,56,85,188,221,227,222,27,171,38,121,118,66,130,128,209,234,124>>, <<28,167,151,201>>>>,
      <<<<28,186,235,122,89,56,85,188,221,227,222,27,171,38,121,118,66,130,128,209,234,124>>, <<151,118,160,54>>>>,
      <<<<30,235,122,89,56,85,188,221,227,222,27,171,38,121,118,66,130,128,209,234,124>>, <<14,65,80,62>>>>,
      <<<<22,235,122,89,56,85,188,221,227,222,27,171,38,121,118,66,130,128,209,234,124>>, <<101,124,148,11>>>>,
      <<<<113,235,122,89,56,85,188,221,227,222,27,171,38,121,118,66,130,128,209,234,124>>, <<106,14,192,39>>>>,
      <<<<0,49,229,67,46,200,1,129,78,145,23,37,212,110,184,60,32,25,20,157,194>>, <<209,152,152,160>>>>,
      <<<<5,49,229,67,46,200,1,129,78,145,23,37,212,110,184,60,32,25,20,157,194>>, <<217,102,174,125>>>>,
      <<<<111,49,229,67,46,200,1,129,78,145,23,37,212,110,184,60,32,25,20,157,194>>, <<139,151,80,194>>>>,
      <<<<196,49,229,67,46,200,1,129,78,145,23,37,212,110,184,60,32,25,20,157,194>>, <<78,56,224,241>>>>,
      <<<<48,49,229,67,46,200,1,129,78,145,23,37,212,110,184,60,32,25,20,157,194>>, <<48,81,113,131>>>>,
      <<<<50,49,229,67,46,200,1,129,78,145,23,37,212,110,184,60,32,25,20,157,194>>, <<134,149,69,60>>>>,
      <<<<58,49,229,67,46,200,1,129,78,145,23,37,212,110,184,60,32,25,20,157,194>>, <<142,110,164,24>>>>,
      <<<<76,49,229,67,46,200,1,129,78,145,23,37,212,110,184,60,32,25,20,157,194>>, <<111,244,162,210>>>>,
      <<<<16,49,229,67,46,200,1,129,78,145,23,37,212,110,184,60,32,25,20,157,194>>, <<140,251,17,11>>>>,
      <<<<140,49,229,67,46,200,1,129,78,145,23,37,212,110,184,60,32,25,20,157,194>>, <<214,44,100,100>>>>,
      <<<<19,49,229,67,46,200,1,129,78,145,23,37,212,110,184,60,32,25,20,157,194>>, <<199,192,13,189>>>>,
      <<<<28,184,49,229,67,46,200,1,129,78,145,23,37,212,110,184,60,32,25,20,157,194>>, <<206,101,153,27>>>>,
      <<<<28,189,49,229,67,46,200,1,129,78,145,23,37,212,110,184,60,32,25,20,157,194>>, <<115,0,120,155>>>>,
      <<<<29,37,49,229,67,46,200,1,129,78,145,23,37,212,110,184,60,32,25,20,157,194>>, <<137,56,126,65>>>>,
      <<<<28,186,49,229,67,46,200,1,129,78,145,23,37,212,110,184,60,32,25,20,157,194>>, <<106,52,96,55>>>>,
      <<<<30,49,229,67,46,200,1,129,78,145,23,37,212,110,184,60,32,25,20,157,194>>, <<244,165,83,254>>>>,
      <<<<22,49,229,67,46,200,1,129,78,145,23,37,212,110,184,60,32,25,20,157,194>>, <<17,188,213,217>>>>,
      <<<<113,49,229,67,46,200,1,129,78,145,23,37,212,110,184,60,32,25,20,157,194>>, <<201,111,64,215>>>>,
      <<<<0,22,44,94,167,28,11,35,245,185,2,46,240,71,196,168,100,112,165,176,112>>, <<164,137,196,102>>>>,
      <<<<5,22,44,94,167,28,11,35,245,185,2,46,240,71,196,168,100,112,165,176,112>>, <<78,200,245,9>>>>,
      <<<<111,22,44,94,167,28,11,35,245,185,2,46,240,71,196,168,100,112,165,176,112>>, <<180,88,98,134>>>>,
      <<<<196,22,44,94,167,28,11,35,245,185,2,46,240,71,196,168,100,112,165,176,112>>, <<238,19,76,42>>>>,
      <<<<48,22,44,94,167,28,11,35,245,185,2,46,240,71,196,168,100,112,165,176,112>>, <<91,34,231,215>>>>,
      <<<<50,22,44,94,167,28,11,35,245,185,2,46,240,71,196,168,100,112,165,176,112>>, <<74,172,51,81>>>>,
      <<<<58,22,44,94,167,28,11,35,245,185,2,46,240,71,196,168,100,112,165,176,112>>, <<52,221,231,99>>>>,
      <<<<76,22,44,94,167,28,11,35,245,185,2,46,240,71,196,168,100,112,165,176,112>>, <<202,1,71,199>>>>,
      <<<<16,22,44,94,167,28,11,35,245,185,2,46,240,71,196,168,100,112,165,176,112>>, <<255,158,94,189>>>>,
      <<<<140,22,44,94,167,28,11,35,245,185,2,46,240,71,196,168,100,112,165,176,112>>, <<17,34,156,148>>>>,
      <<<<19,22,44,94,167,28,11,35,245,185,2,46,240,71,196,168,100,112,165,176,112>>, <<110,251,212,167>>>>,
      <<<<28,184,22,44,94,167,28,11,35,245,185,2,46,240,71,196,168,100,112,165,176,112>>, <<34,180,241,165>>>>,
      <<<<28,189,22,44,94,167,28,11,35,245,185,2,46,240,71,196,168,100,112,165,176,112>>, <<176,28,203,74>>>>,
      <<<<29,37,22,44,94,167,28,11,35,245,185,2,46,240,71,196,168,100,112,165,176,112>>, <<86,4,230,97>>>>,
      <<<<28,186,22,44,94,167,28,11,35,245,185,2,46,240,71,196,168,100,112,165,176,112>>, <<101,75,177,238>>>>,
      <<<<30,22,44,94,167,28,11,35,245,185,2,46,240,71,196,168,100,112,165,176,112>>, <<238,163,185,50>>>>,
      <<<<22,22,44,94,167,28,11,35,245,185,2,46,240,71,196,168,100,112,165,176,112>>, <<254,74,44,236>>>>,
      <<<<113,22,44,94,167,28,11,35,245,185,2,46,240,71,196,168,100,112,165,176,112>>, <<146,51,30,115>>>>,
      <<<<0,87,98,121,109,104,239,122,116,146,173,84,131,144,58,174,83,67,78,6,140>>, <<58,217,81,202>>>>,
      <<<<5,87,98,121,109,104,239,122,116,146,173,84,131,144,58,174,83,67,78,6,140>>, <<8,9,180,76>>>>,
      <<<<111,87,98,121,109,104,239,122,116,146,173,84,131,144,58,174,83,67,78,6,140>>, <<16,57,136,73>>>>,
      <<<<196,87,98,121,109,104,239,122,116,146,173,84,131,144,58,174,83,67,78,6,140>>, <<61,86,12,80>>>>,
      <<<<48,87,98,121,109,104,239,122,116,146,173,84,131,144,58,174,83,67,78,6,140>>, <<145,197,110,246>>>>,
      <<<<50,87,98,121,109,104,239,122,116,146,173,84,131,144,58,174,83,67,78,6,140>>, <<154,38,133,130>>>>,
      <<<<58,87,98,121,109,104,239,122,116,146,173,84,131,144,58,174,83,67,78,6,140>>, <<179,128,87,52>>>>,
      <<<<76,87,98,121,109,104,239,122,116,146,173,84,131,144,58,174,83,67,78,6,140>>, <<89,205,163,246>>>>,
      <<<<16,87,98,121,109,104,239,122,116,146,173,84,131,144,58,174,83,67,78,6,140>>, <<41,55,187,175>>>>,
      <<<<140,87,98,121,109,104,239,122,116,146,173,84,131,144,58,174,83,67,78,6,140>>, <<107,253,86,110>>>>,
      <<<<19,87,98,121,109,104,239,122,116,146,173,84,131,144,58,174,83,67,78,6,140>>, <<91,223,58,126>>>>,
      <<<<28,184,87,98,121,109,104,239,122,116,146,173,84,131,144,58,174,83,67,78,6,140>>, <<140,4,106,103>>>>,
      <<<<28,189,87,98,121,109,104,239,122,116,146,173,84,131,144,58,174,83,67,78,6,140>>, <<39,243,7,24>>>>,
      <<<<29,37,87,98,121,109,104,239,122,116,146,173,84,131,144,58,174,83,67,78,6,140>>, <<89,86,14,67>>>>,
      <<<<28,186,87,98,121,109,104,239,122,116,146,173,84,131,144,58,174,83,67,78,6,140>>, <<108,137,14,97>>>>,
      <<<<30,87,98,121,109,104,239,122,116,146,173,84,131,144,58,174,83,67,78,6,140>>, <<24,38,227,69>>>>,
      <<<<22,87,98,121,109,104,239,122,116,146,173,84,131,144,58,174,83,67,78,6,140>>, <<196,93,174,108>>>>,
      <<<<113,87,98,121,109,104,239,122,116,146,173,84,131,144,58,174,83,67,78,6,140>>, <<189,33,223,241>>>>,
      <<<<0,239,118,70,127,67,89,168,63,15,174,178,13,169,224,211,14,2,38,116,94>>, <<19,17,190,201>>>>,
      <<<<5,239,118,70,127,67,89,168,63,15,174,178,13,169,224,211,14,2,38,116,94>>, <<245,230,176,226>>>>,
      <<<<111,239,118,70,127,67,89,168,63,15,174,178,13,169,224,211,14,2,38,116,94>>, <<76,221,7,106>>>>,
      <<<<196,239,118,70,127,67,89,168,63,15,174,178,13,169,224,211,14,2,38,116,94>>, <<231,106,66,0>>>>,
      <<<<48,239,118,70,127,67,89,168,63,15,174,178,13,169,224,211,14,2,38,116,94>>, <<27,156,176,201>>>>,
      <<<<50,239,118,70,127,67,89,168,63,15,174,178,13,169,224,211,14,2,38,116,94>>, <<234,172,68,74>>>>,
      <<<<58,239,118,70,127,67,89,168,63,15,174,178,13,169,224,211,14,2,38,116,94>>, <<128,40,46,124>>>>,
      <<<<76,239,118,70,127,67,89,168,63,15,174,178,13,169,224,211,14,2,38,116,94>>, <<196,47,226,28>>>>,
      <<<<16,239,118,70,127,67,89,168,63,15,174,178,13,169,224,211,14,2,38,116,94>>, <<243,96,37,194>>>>,
      <<<<140,239,118,70,127,67,89,168,63,15,174,178,13,169,224,211,14,2,38,116,94>>, <<92,187,185,194>>>>,
      <<<<19,239,118,70,127,67,89,168,63,15,174,178,13,169,224,211,14,2,38,116,94>>, <<35,165,193,248>>>>,
      <<<<28,184,239,118,70,127,67,89,168,63,15,174,178,13,169,224,211,14,2,38,116,94>>, <<42,27,129,156>>>>,
      <<<<28,189,239,118,70,127,67,89,168,63,15,174,178,13,169,224,211,14,2,38,116,94>>, <<68,77,85,152>>>>,
      <<<<29,37,239,118,70,127,67,89,168,63,15,174,178,13,169,224,211,14,2,38,116,94>>, <<197,212,171,217>>>>,
      <<<<28,186,239,118,70,127,67,89,168,63,15,174,178,13,169,224,211,14,2,38,116,94>>, <<98,7,132,47>>>>,
      <<<<30,239,118,70,127,67,89,168,63,15,174,178,13,169,224,211,14,2,38,116,94>>, <<216,8,223,9>>>>,
      <<<<22,239,118,70,127,67,89,168,63,15,174,178,13,169,224,211,14,2,38,116,94>>, <<48,186,207,143>>>>,
      <<<<113,239,118,70,127,67,89,168,63,15,174,178,13,169,224,211,14,2,38,116,94>>, <<46,58,136,151>>>>,
      <<<<0,0,0,0,0,0,0,0,0,0,0,0,0,0,0,0,0,0,0,0,0>>, <<148,160,9,17>>>>,
      <<<<5,0,0,0,0,0,0,0,0,0,0,0,0,0,0,0,0,0,0,0,0>>, <<220,140,97,196>>>>,
      <<<<111,0,0,0,0,0,0,0,0,0,0,0,0,0,0,0,0,0,0,0,0>>, <<143,98,183,33>>>>,
      <<<<196,0,0,0,0,0,0,0,0,0,0,0,0,0,0,0,0,0,0,0,0>>, <<36,199,255,40>>>>,
      <<<<48,0,0,0,0,0,0,0,0,0,0,0,0,0,0,0,0,0,0,0,0>>, <<200,239,42,105>>>>,
      <<<<50,0,0,0,0,0,0,0,0,0,0,0,0,0,0,0,0,0,0,0,0>>, <<7,105,62,24>>>>,
      <<<<58,0,0,0,0,0,0,0,0,0,0,0,0,0,0,0,0,0,0,0,0>>, <<148,115,91,129>>>>,
      <<<<76,0,0,0,0,0,0,0,0,0,0,0,0,0,0,0,0,0,0,0,0>>, <<142,169,152,59>>>>,
      <<<<16,0,0,0,0,0,0,0,0,0,0,0,0,0,0,0,0,0,0,0,0>>, <<91,115,38,194>>>>,
      <<<<140,0,0,0,0,0,0,0,0,0,0,0,0,0,0,0,0,0,0,0,0>>, <<121,58,98,54>>>>,
      <<<<19,0,0,0,0,0,0,0,0,0,0,0,0,0,0,0,0,0,0,0,0>>, <<206,189,146,204>>>>,
      <<<<28,184,0,0,0,0,0,0,0,0,0,0,0,0,0,0,0,0,0,0,0,0>>, <<207,120,67,50>>>>,
      <<<<28,189,0,0,0,0,0,0,0,0,0,0,0,0,0,0,0,0,0,0,0,0>>, <<100,78,116,17>>>>,
      <<<<29,37,0,0,0,0,0,0,0,0,0,0,0,0,0,0,0,0,0,0,0,0>>, <<101,154,248,57>>>>,
      <<<<28,186,0,0,0,0,0,0,0,0,0,0,0,0,0,0,0,0,0,0,0,0>>, <<3,50,47,123>>>>,
      <<<<30,0,0,0,0,0,0,0,0,0,0,0,0,0,0,0,0,0,0,0,0>>, <<139,129,38,63>>>>,
      <<<<22,0,0,0,0,0,0,0,0,0,0,0,0,0,0,0,0,0,0,0,0>>, <<174,109,188,232>>>>,
      <<<<113,0,0,0,0,0,0,0,0,0,0,0,0,0,0,0,0,0,0,0,0>>, <<144,145,198,135>>>>,
      <<<<85,255,69,76,37,82,244,33,83,147,102,141,239,22,79,135,88,217,151,217,246>>, <<77,98,137,5>>>> }

Lookup(table, key) == (CHOOSE e \in table : e[1] = key)[2]
Known(table, key) == \E e \in table : e[1] = key

\* A digest the tables do not hold is taken to be zero bytes.
Hash160(bytes) ==
    IF Known(Hash160Table, bytes) THEN Lookup(Hash160Table, bytes) ELSE [i \in 1..20 |-> 0]
Sha256(bytes) ==
    IF Known(Sha256Table, bytes) THEN Lookup(Sha256Table, bytes) ELSE [i \in 1..32 |-> 0]
Sha256d4(bytes) ==
    IF Known(Sha256dTable, bytes) THEN Lookup(Sha256dTable, bytes) ELSE <<0, 0, 0, 0>>

\* key::PublicKey::write_into: 33 bytes when compressed, 65 otherwise.
PublicKey(i, compressed) == [key |-> PublicKeys[i], compressed |-> compressed]
serialize(pk) ==
    IF pk.compressed THEN <<2 + (pk.key.y[32] % 2)>> \o pk.key.x
    ELSE <<4>> \o pk.key.x \o pk.key.y

\* base58::from_check: the last four bytes must be the checksum of the rest.
base58_from_check(data) ==
    LET dec == base58_from(data)
        ret == dec.bytes
        ck_start == Len(ret) - 4
        body == SubSeq(ret, 1, ck_start)
    IN IF ~dec.ok THEN dec
       ELSE IF Len(ret) < 4
            THEN [ok |-> FALSE, err |-> Base58Error("TooShort", Len(ret), NoBytes), bytes |-> NoBytes]
       ELSE IF Sha256d4(body) # SubSeq(ret, ck_start + 1, Len(ret))
            THEN [ok |-> FALSE, err |-> Base58Error("BadChecksum", 0, NoBytes), bytes |-> NoBytes]
       ELSE [ok |-> TRUE, err |-> NoErr, bytes |-> body]

\* base58::check_encode_slice
base58_check_encode(bytes) == base58_encode(bytes \o Sha256d4(bytes))

-----------------------------------------------------------------------------
(* blockdata::script                                                       *)

OP_DUP == 118
OP_HASH160 == 169
OP_EQUALVERIFY == 136
OP_CHECKSIG == 172
OP_EQUAL == 135
OP_PUSHNUM_1 == 81
OP_PUSHNUM_16 == 96
OP_PUSHBYTES_2 == 2
OP_PUSHBYTES_20 == 20
OP_PUSHBYTES_40 == 40

\* Builder::push_slice of at most 75 bytes: the length as the push opcode.
push_slice(data) == <<Len(data)>> \o data

new_p2pkh(hash) ==
    <<OP_DUP, OP_HASH160>> \o push_slice(hash) \o <<OP_EQUALVERIFY, OP_CHECKSIG>>
new_p2sh(hash) == <<OP_HASH160>> \o push_slice(hash) \o <<OP_EQUAL>>
\* Script::new_witness_program; it asserts ver <= 16.
new_witness_program(ver, program) ==
    <<IF ver > 0 THEN 80 + ver ELSE 0>> \o push_slice(program)

is_p2pkh(sc) ==
    /\ Len(sc) = 25
    /\ sc[1] = OP_DUP /\ sc[2] = OP_HASH160 /\ sc[3] = OP_PUSHBYTES_20
    /\ sc[24] = OP_EQUALVERIFY /\ sc[25] = OP_CHECKSIG
is_p2sh(sc) ==
    /\ Len(sc) = 23
    /\ sc[1] = OP_HASH160 /\ sc[2] = OP_PUSHBYTES_20 /\ sc[23] = OP_EQUAL
is_witness_program(sc) ==
    /\ Len(sc) >= 4 /\ Len(sc) <= 42
    /\ (sc[1] = 0 \/ (sc[1] >= OP_PUSHNUM_1 /\ sc[1] <= OP_PUSHNUM_16))
    /\ sc[2] >= OP_PUSHBYTES_2 /\ sc[2] <= OP_PUSHBYTES_40
    /\ Len(sc) - 2 = sc[2]

-----------------------------------------------------------------------------
(* Payload                                                                 *)

PubkeyHash(hash) == [variant |-> "PubkeyHash", version |-> 0, bytes |-> hash]
ScriptHash(hash) == [variant |-> "ScriptHash", version |-> 0, bytes |-> hash]
WitnessProgram(version, program) ==
    [variant |-> "WitnessProgram", version |-> version, bytes |-> program]

NoPayload == [variant |-> "None", version |-> 0, bytes |-> NoBytes]

\* Payload::from_script with the version opcodes taken from OP_PUSHNUM_2 on.
Payload_from_script_off_by_one(sc) ==
    IF is_p2pkh(sc) THEN PubkeyHash(SubSeq(sc, 4, 23))
    ELSE IF is_p2sh(sc) THEN ScriptHash(SubSeq(sc, 3, 22))
    ELSE IF is_witness_program(sc)
         THEN WitnessProgram(IF sc[1] > 81 THEN sc[1] - 80 ELSE sc[1], SubSeq(sc, 3, Len(sc)))
    ELSE NoPayload

\* Payload::from_script; NoPayload stands for None.
Payload_from_script(sc) ==
    IF is_p2pkh(sc) THEN PubkeyHash(SubSeq(sc, 4, 23))
    ELSE IF is_p2sh(sc) THEN ScriptHash(SubSeq(sc, 3, 22))
    ELSE IF is_witness_program(sc)
         THEN WitnessProgram(IF sc[1] > 80 THEN sc[1] - 80 ELSE sc[1], SubSeq(sc, 3, Len(sc)))
    ELSE NoPayload

Payload_script_pubkey(payload) ==
    IF payload.variant = "PubkeyHash" THEN new_p2pkh(payload.bytes)
    ELSE IF payload.variant = "ScriptHash" THEN new_p2sh(payload.bytes)
    ELSE new_witness_program(payload.version, payload.bytes)

-----------------------------------------------------------------------------
(* Address                                                                 *)

Networks == {"Bitcoin", "Testnet", "Signet", "Regtest"}

Address(payload, network, b32m, b32t, pkm, shm, pkt, sht) ==
    [payload |-> payload, network |-> network,
     prefix_bech32_mainnet |-> b32m, prefix_bech32_testnet |-> b32t,
     version_pubkeyhash_mainnet |-> pkm, version_scripthash_mainnet |-> shm,
     version_pubkeyhash_testnet |-> pkt, version_scripthash_testnet |-> sht]

\* An equality that compares the payload and the network only.
Address_eq_payload_network(x, y) ==
    /\ x.payload = y.payload
    /\ x.network = y.network

\* #[derive(PartialEq, Eq)] on struct Address: field by field.
Address_eq(x, y) ==
    /\ x.payload = y.payload
    /\ x.network = y.network
    /\ x.prefix_bech32_mainnet = y.prefix_bech32_mainnet
    /\ x.prefix_bech32_testnet = y.prefix_bech32_testnet
    /\ x.version_pubkeyhash_mainnet = y.version_pubkeyhash_mainnet
    /\ x.version_pubkeyhash_testnet = y.version_pubkeyhash_testnet
    /\ x.version_scripthash_mainnet = y.version_scripthash_mainnet
    /\ x.version_scripthash_testnet = y.version_scripthash_testnet

NoAddr == Address(NoPayload, "None", <<>>, <<>>, <<>>, <<>>, <<>>, <<>>)
DefaultHash == [i \in 1..20 |-> 0]

new_btc == Address(ScriptHash(DefaultHash), "Signet", <<"b","c">>, <<"t","b">>,
                   <<0>>, <<5>>, <<111>>, <<196>>)
to_btc(self) == Address(self.payload, self.network, <<"b","c">>, <<"t","b">>,
                        <<0>>, <<5>>, <<111>>, <<196>>)
new_ltc == Address(ScriptHash(DefaultHash), "Signet", <<"l","t","c">>, <<"t","l","t","c">>,
                   <<48>>, <<50>>, <<111>>, <<58>>)
to_ltc(self) == Address(self.payload, self.network, <<"l","t","c">>, <<"t","l","t","c">>,
                        <<48>>, <<50>>, <<111>>, <<58>>)
new_dash == Address(ScriptHash(DefaultHash), "Signet", <<"x","x","x">>, <<"x","x","x">>,
                    <<76>>, <<16>>, <<140>>, <<19>>)
to_dash(self) == Address(self.payload, self.network, <<"x","x","x">>, <<"x","x","x">>,
                         <<76>>, <<16>>, <<140>>, <<19>>)
new_zec == Address(ScriptHash(DefaultHash), "Signet", <<"x","x","x">>, <<"x","x","x">>,
                   <<28, 184>>, <<28, 189>>, <<29, 37>>, <<28, 186>>)
\* to_zec with the network of new_zec.
to_zec_reset_network(self) ==
    Address(self.payload, "Signet", <<"x","x","x">>, <<"x","x","x">>,
            <<28, 184>>, <<28, 189>>, <<29, 37>>, <<28, 186>>)
to_zec(self) == Address(self.payload, self.network, <<"x","x","x">>, <<"x","x","x">>,
                        <<28, 184>>, <<28, 189>>, <<29, 37>>, <<28, 186>>)
new_doge == Address(ScriptHash(DefaultHash), "Signet", <<"x","x","x">>, <<"x","x","x">>,
                    <<30>>, <<22>>, <<113>>, <<196>>)
\* to_doge with the testnet script-hash version equal to the testnet key-hash one.
to_doge_repeated_version(self) ==
    Address(self.payload, self.network, <<"x","x","x">>, <<"x","x","x">>,
            <<30>>, <<22>>, <<113>>, <<113>>)
to_doge(self) == Address(self.payload, self.network, <<"x","x","x">>, <<"x","x","x">>,
                         <<30>>, <<22>>, <<113>>, <<196>>)

\* Result<Address, Error>, and Option<Address> with NoAddr for None.
Ok(addr) == [ok |-> TRUE, addr |-> addr, err |-> NoErr]
Fail(err) == [ok |-> FALSE, addr |-> NoAddr, err |-> err]

\* The template's profile and network with a fresh payload.
Derive_keep_network(self, payload, network) == [self EXCEPT !.payload = payload]

\* The template's profile with a fresh payload and the caller's network.
Derive(self, payload, network) == [self EXCEPT !.payload = payload, !.network = network]

p2pkh(self, pk, network) == Derive(self, PubkeyHash(Hash160(serialize(pk))), network)
p2sh(self, sc, network) == Derive(self, ScriptHash(Hash160(sc)), network)
p2wpkh(self, pk, network) ==
    IF ~pk.compressed THEN Fail(UncompressedPubkey)
    ELSE Ok(Derive(self, WitnessProgram(0, Hash160(serialize(pk))), network))
\* p2shwpkh without the check of the key's compressed flag.
p2shwpkh_unchecked(self, pk, network) ==
    Ok(Derive(self, ScriptHash(Hash160(<<0>> \o push_slice(Hash160(serialize(pk))))), network))

p2shwpkh(self, pk, network) ==
    IF ~pk.compressed THEN Fail(UncompressedPubkey)
    ELSE Ok(Derive(self,
                   ScriptHash(Hash160(<<0>> \o push_slice(Hash160(serialize(pk))))), network))
p2wsh(self, sc, network) == Derive(self, WitnessProgram(0, Sha256(sc)), network)
p2shwsh(self, sc, network) ==
    Derive(self, ScriptHash(Hash160(<<0>> \o push_slice(Sha256(sc)))), network)

\* address_type that classifies by the program length alone.
address_type_any_version(self) ==
    IF self.payload.variant = "PubkeyHash" THEN "P2pkh"
    ELSE IF self.payload.variant = "ScriptHash" THEN "P2sh"
    ELSE IF Len(self.payload.bytes) = 20 THEN "P2wpkh"
    ELSE IF Len(self.payload.bytes) = 32 THEN "P2wsh"
    ELSE "None"

\* Option<AddressType>, "None" for None.
address_type(self) ==
    IF self.payload.variant = "PubkeyHash" THEN "P2pkh"
    ELSE IF self.payload.variant = "ScriptHash" THEN "P2sh"
    ELSE IF self.payload.version = 0
         THEN (IF Len(self.payload.bytes) = 20 THEN "P2wpkh"
               ELSE IF Len(self.payload.bytes) = 32 THEN "P2wsh"
               ELSE "None")
    ELSE "None"
is_standard(self) == address_type(self) # "None"

from_script(self, sc, network) ==
    LET payload == Payload_from_script(sc)
    IN IF payload = NoPayload THEN NoAddr ELSE Derive(self, payload, network)
script_pubkey(self) == Payload_script_pubkey(self.payload)

\* The prefix match returning Signet for the testnet prefix.
bech32_network_signet(self, t) ==
    LET prefix == find_bech32_prefix(t)
    IN IF eq_ignore_ascii_case(self.prefix_bech32_testnet, prefix) THEN "Signet"
       ELSE IF eq_ignore_ascii_case(self.prefix_bech32_mainnet, prefix) THEN "Bitcoin"
       ELSE "None"

\* The prefix comparison made case-sensitive.
bech32_network_exact_case(self, t) ==
    LET prefix == find_bech32_prefix(t)
    IN IF self.prefix_bech32_testnet = prefix THEN "Testnet"
       ELSE IF self.prefix_bech32_mainnet = prefix THEN "Bitcoin"
       ELSE "None"

\* from_str, lines 557-564: the network the prefix selects, "None" for no match.
bech32_network(self, t) ==
    LET prefix == find_bech32_prefix(t)
    IN IF eq_ignore_ascii_case(self.prefix_bech32_testnet, prefix) THEN "Testnet"
       ELSE IF eq_ignore_ascii_case(self.prefix_bech32_mainnet, prefix) THEN "Bitcoin"
       ELSE "None"

\* The bech32 path reporting an empty data part as a program of no bytes.
from_str_bech32_empty_as_length(self, t, network) ==
    LET dec == bech32_decode(t)
        payload == dec.data
        version == payload[1]
        p5 == Tail(payload)
        program == from_base32(p5)
    IN IF ~dec.ok THEN Fail(dec.err)
       ELSE IF payload = <<>> THEN Fail(InvalidWitnessProgramLength(0))
       ELSE IF ~from_base32_ok(p5) THEN Fail(Bech32Error("InvalidPadding"))
       ELSE IF version > 16 THEN Fail(InvalidWitnessVersion(version))
       ELSE IF Len(program) < 2 \/ Len(program) > 40
            THEN Fail(InvalidWitnessProgramLength(Len(program)))
       ELSE IF version = 0 /\ (Len(program) # 20 /\ Len(program) # 32)
            THEN Fail(InvalidSegwitV0ProgramLength(Len(program)))
       ELSE Ok(Derive(self, WitnessProgram(version, program), network))

\* The bech32 path without the version-0 length check.
from_str_bech32_no_v0_check(self, t, network) ==
    LET dec == bech32_decode(t)
        payload == dec.data
        version == payload[1]
        p5 == Tail(payload)
        program == from_base32(p5)
    IN IF ~dec.ok THEN Fail(dec.err)
       ELSE IF payload = <<>> THEN Fail(EmptyBech32Payload)
       ELSE IF ~from_base32_ok(p5) THEN Fail(Bech32Error("InvalidPadding"))
       ELSE IF version > 16 THEN Fail(InvalidWitnessVersion(version))
       ELSE IF Len(program) < 2 \/ Len(program) > 40
            THEN Fail(InvalidWitnessProgramLength(Len(program)))
       ELSE Ok(Derive(self, WitnessProgram(version, program), network))

\* The bech32 path with the upper length bound off by one.
from_str_bech32_short(self, t, network) ==
    LET dec == bech32_decode(t)
        payload == dec.data
        version == payload[1]
        p5 == Tail(payload)
        program == from_base32(p5)
    IN IF ~dec.ok THEN Fail(dec.err)
       ELSE IF payload = <<>> THEN Fail(EmptyBech32Payload)
       ELSE IF ~from_base32_ok(p5) THEN Fail(Bech32Error("InvalidPadding"))
       ELSE IF version > 16 THEN Fail(InvalidWitnessVersion(version))
       ELSE IF Len(program) < 2 \/ Len(program) >= 40
            THEN Fail(InvalidWitnessProgramLength(Len(program)))
       ELSE IF version = 0 /\ (Len(program) # 20 /\ Len(program) # 32)
            THEN Fail(InvalidSegwitV0ProgramLength(Len(program)))
       ELSE Ok(Derive(self, WitnessProgram(version, program), network))

\* from_str, lines 566-605: decode as bech32.
from_str_bech32(self, t, network) ==
    LET dec == bech32_decode(t)
        payload == dec.data
        version == payload[1]
        p5 == Tail(payload)
        program == from_base32(p5)
    IN IF ~dec.ok THEN Fail(dec.err)
       ELSE IF payload = <<>> THEN Fail(EmptyBech32Payload)
       ELSE IF ~from_base32_ok(p5) THEN Fail(Bech32Error("InvalidPadding"))
       ELSE IF version > 16 THEN Fail(InvalidWitnessVersion(version))
       ELSE IF Len(program) < 2 \/ Len(program) > 40
            THEN Fail(InvalidWitnessProgramLength(Len(program)))
       ELSE IF version = 0 /\ (Len(program) # 20 /\ Len(program) # 32)
            THEN Fail(InvalidSegwitV0ProgramLength(Len(program)))
       ELSE Ok(Derive(self, WitnessProgram(version, program), network))

\* The Base58 path without the guard on the length of the text.
from_str_base58_unguarded(self, t) ==
    LET dec == base58_from_check(t)
        data == dec.bytes
        prefix_len == Len(self.version_pubkeyhash_mainnet)
        version == SubSeq(data, 1, prefix_len)
        hash == SubSeq(data, prefix_len + 1, Len(data))
    IN IF ~dec.ok THEN Fail(dec.err)
       ELSE IF Len(data) # 20 + prefix_len
            THEN Fail(Base58Error("InvalidLength", Len(data), NoBytes))
       ELSE IF version = self.version_pubkeyhash_mainnet
            THEN Ok(Derive(self, PubkeyHash(hash), "Bitcoin"))
       ELSE IF version = self.version_scripthash_mainnet
            THEN Ok(Derive(self, ScriptHash(hash), "Bitcoin"))
       ELSE IF version = self.version_pubkeyhash_testnet
            THEN Ok(Derive(self, PubkeyHash(hash), "Testnet"))
       ELSE IF version = self.version_scripthash_testnet
            THEN Ok(Derive(self, ScriptHash(hash), "Testnet"))
       ELSE Fail(Base58Error("InvalidVersion", 0, version))

\* from_str, lines 607-653: Base58.
from_str_base58(self, t) ==
    LET dec == base58_from_check(t)
        data == dec.bytes
        prefix_len == Len(self.version_pubkeyhash_mainnet)
        version == SubSeq(data, 1, prefix_len)
        hash == SubSeq(data, prefix_len + 1, Len(data))
    IN IF Len(t) > 50 THEN Fail(Base58Error("InvalidLength", (Len(t) * 11) \div 15, NoBytes))
       ELSE IF ~dec.ok THEN Fail(dec.err)
       ELSE IF Len(data) # 20 + prefix_len
            THEN Fail(Base58Error("InvalidLength", Len(data), NoBytes))
       ELSE IF version = self.version_pubkeyhash_mainnet
            THEN Ok(Derive(self, PubkeyHash(hash), "Bitcoin"))
       ELSE IF version = self.version_scripthash_mainnet
            THEN Ok(Derive(self, ScriptHash(hash), "Bitcoin"))
       ELSE IF version = self.version_pubkeyhash_testnet
            THEN Ok(Derive(self, PubkeyHash(hash), "Testnet"))
       ELSE IF version = self.version_scripthash_testnet
            THEN Ok(Derive(self, ScriptHash(hash), "Testnet"))
       ELSE Fail(Base58Error("InvalidVersion", 0, version))

from_str(self, t) ==
    LET network == bech32_network(self, t)
    IN IF network # "None" THEN from_str_bech32(self, t, network)
       ELSE from_str_base58(self, t)

\* Display with regtest witness addresses under the testnet prefix.
to_string_regtest_as_testnet(self) ==
    IF self.payload.variant = "PubkeyHash"
    THEN base58_check_encode(
            (IF self.network = "Bitcoin" THEN self.version_pubkeyhash_mainnet
             ELSE self.version_pubkeyhash_testnet) \o self.payload.bytes)
    ELSE IF self.payload.variant = "ScriptHash"
    THEN base58_check_encode(
            (IF self.network = "Bitcoin" THEN self.version_scripthash_mainnet
             ELSE self.version_scripthash_testnet) \o self.payload.bytes)
    ELSE bech32_encode(
            IF self.network = "Bitcoin" THEN self.prefix_bech32_mainnet
            ELSE self.prefix_bech32_testnet,
            <<self.payload.version>> \o to_base32(self.payload.bytes))

\* Display with the script-hash version byte chosen without regard to the network.
to_string_mainnet_p2sh(self) ==
    IF self.payload.variant = "PubkeyHash"
    THEN base58_check_encode(
            (IF self.network = "Bitcoin" THEN self.version_pubkeyhash_mainnet
             ELSE self.version_pubkeyhash_testnet) \o self.payload.bytes)
    ELSE IF self.payload.variant = "ScriptHash"
    THEN base58_check_encode(self.version_scripthash_mainnet \o self.payload.bytes)
    ELSE bech32_encode(
            IF self.network = "Bitcoin" THEN self.prefix_bech32_mainnet
            ELSE IF self.network \in {"Testnet", "Signet"} THEN self.prefix_bech32_testnet
            ELSE <<"b","c","r","t">>,
            <<self.payload.version>> \o to_base32(self.payload.bytes))

\* impl Display for Address
to_string(self) ==
    IF self.payload.variant = "PubkeyHash"
    THEN base58_check_encode(
            (IF self.network = "Bitcoin" THEN self.version_pubkeyhash_mainnet
             ELSE self.version_pubkeyhash_testnet) \o self.payload.bytes)
    ELSE IF self.payload.variant = "ScriptHash"
    THEN base58_check_encode(
            (IF self.network = "Bitcoin" THEN self.version_scripthash_mainnet
             ELSE self.version_scripthash_testnet) \o self.payload.bytes)
    ELSE bech32_encode(
            IF self.network = "Bitcoin" THEN self.prefix_bech32_mainnet
            ELSE IF self.network \in {"Testnet", "Signet"} THEN self.prefix_bech32_testnet
            ELSE <<"b","c","r","t">>,
            <<self.payload.version>> \o to_base32(self.payload.bytes))

-----------------------------------------------------------------------------
(* Inputs                                                                  *)

NumKeys == 1
NumScripts == 1
NumHashes == 3
MaxVersion == 17
MaxProgramLen == 41

Coins == {"btc", "ltc", "dash", "zec", "doge"}
New(coin) ==
    CASE coin = "btc" -> new_btc
      [] coin = "ltc" -> new_ltc
      [] coin = "dash" -> new_dash
      [] coin = "zec" -> new_zec
      [] coin = "doge" -> new_doge

\* The strings of tests::test_bip173_vectors (six valid, ten invalid) and of
\* tests::test_json_serialize, and a checksum-valid Base58 string of 21 bytes
\* (version 85) that begins bc1.
TestVectors ==
    << <<"B","C","1","Q","W","5","0","8","D","6","Q","E","J","X","T","D","G","4","Y","5","R","3","Z","A","R","V","A","R","Y","0","C","5","X","W","7","K","V","8","F","3","T","4">>,
       <<"t","b","1","q","r","p","3","3","g","0","q","5","c","5","t","x","s","p","9","a","r","y","s","r","x","4","k","6","z","d","k","f","s","4","n","c","e","4","x","j","0","g","d","c","c","c","e","f","v","p","y","s","x","f","3","q","0","s","l","5","k","7">>,
       <<"b","c","1","p","w","5","0","8","d","6","q","e","j","x","t","d","g","4","y","5","r","3","z","a","r","v","a","r","y","0","c","5","x","w","7","k","w","5","0","8","d","6","q","e","j","x","t","d","g","4","y","5","r","3","z","a","r","v","a","r","y","0","c","5","x","w","7","k","7","g","r","p","l","x">>,
       <<"B","C","1","S","W","5","0","Q","A","3","J","X","3","S">>,
       <<"b","c","1","z","w","5","0","8","d","6","q","e","j","x","t","d","g","4","y","5","r","3","z","a","r","v","a","r","y","v","g","6","k","d","a","j">>,
       <<"t","b","1","q","q","q","q","q","p","3","9","9","e","t","2","x","y","g","d","j","5","x","r","e","q","h","j","j","v","c","m","z","h","x","w","4","a","y","w","x","e","c","j","d","z","e","w","6","h","y","l","g","v","s","e","s","r","x","h","6","h","y">>,
       <<"t","c","1","q","w","5","0","8","d","6","q","e","j","x","t","d","g","4","y","5","r","3","z","a","r","v","a","r","y","0","c","5","x","w","7","k","g","3","g","4","t","y">>,
       <<"b","c","1","q","w","5","0","8","d","6","q","e","j","x","t","d","g","4","y","5","r","3","z","a","r","v","a","r","y","0","c","5","x","w","7","k","v","8","f","3","t","5">>,
       <<"B","C","1","3","W","5","0","8","D","6","Q","E","J","X","T","D","G","4","Y","5","R","3","Z","A","R","V","A","R","Y","0","C","5","X","W","7","K","N","4","0","W","F","2">>,
       <<"b","c","1","r","w","5","u","s","p","c","u","h">>,
       <<"b","c","1","0","w","5","0","8","d","6","q","e","j","x","t","d","g","4","y","5","r","3","z","a","r","v","a","r","y","0","c","5","x","w","7","k","w","5","0","8","d","6","q","e","j","x","t","d","g","4","y","5","r","3","z","a","r","v","a","r","y","0","c","5","x","w","7","k","w","5","r","l","j","s","9","0">>,
       <<"B","C","1","Q","R","5","0","8","D","6","Q","E","J","X","T","D","G","4","Y","5","R","3","Z","A","R","V","A","R","Y","V","9","8","G","J","9","P">>,
       <<"t","b","1","q","r","p","3","3","g","0","q","5","c","5","t","x","s","p","9","a","r","y","s","r","x","4","k","6","z","d","k","f","s","4","n","c","e","4","x","j","0","g","d","c","c","c","e","f","v","p","y","s","x","f","3","q","0","s","L","5","k","7">>,
       <<"b","c","1","z","w","5","0","8","d","6","q","e","j","x","t","d","g","4","y","5","r","3","z","a","r","v","a","r","y","v","q","y","z","f","3","d","u">>,
       <<"t","b","1","q","r","p","3","3","g","0","q","5","c","5","t","x","s","p","9","a","r","y","s","r","x","4","k","6","z","d","k","f","s","4","n","c","e","4","x","j","0","g","d","c","c","c","e","f","v","p","y","s","x","f","3","p","j","x","t","p","t","v">>,
       <<"b","c","1","g","m","k","9","y","u">>,
       <<"1","3","2","F","2","5","r","T","s","v","B","d","p","9","J","z","L","L","B","H","P","5","m","v","G","Y","6","6","i","1","x","d","i","M">>,
       <<"3","3","i","F","w","d","L","u","R","p","W","1","u","K","1","R","T","R","q","s","o","i","8","r","R","4","N","p","D","z","k","6","6","k">>,
       <<"b","c","r","t","1","q","2","n","f","x","m","h","d","4","n","3","c","8","8","3","4","p","j","7","2","x","a","g","v","y","r","9","g","l","5","7","n","5","r","9","4","f","s","l">>,
       <<"b","c","1","2","2","2","2","2","2","2","2","2","2","2","2","2","2","2","2","2","2","2","2","2","2","2","2","2","5","R","y","Y","6","8">> >>

\* Witness programs set through the public fields: versions and lengths on both
\* sides of every bound from_str checks.
WitnessVersions == {0, 1} \cup (16..MaxVersion)
ProgramLengths == {1, 2, 20, 21, 32} \cup (40..MaxProgramLen)
Program(n) == [i \in 1..n |-> (i * 37 + n) % 256]
FieldPrograms ==
    { p \in WitnessVersions \X ProgramLengths : p[1] \in {0, 16, 17} \/ p[2] = 32 }
FieldPayloads ==
    { PubkeyHash(HashSamples[i]) : i \in 1..NumHashes }
    \cup { ScriptHash(HashSamples[i]) : i \in 1..NumHashes }
    \cup { WitnessProgram(p[1], Program(p[2])) : p \in FieldPrograms }
FieldNetworks == {"Bitcoin", "Testnet"}

\* Data parts for hand-made bech32 strings: empty, a version alone, a version
\* with groups that do not regroup to bytes, and short programs.
RawData ==
    { <<>>, <<17>>, <<17, 0>>, <<17, 0, 1>>, <<0, 0, 1>>, <<0>>,
      <<16, 0, 0, 0, 0>>, <<0, 0, 0, 0, 0>> }
RawHrps ==
    { <<"b","c">>, <<"t","b">>, <<"l","t","c">>, <<"t","l","t","c">>,
      <<"x","x","x">>, <<"t","c">>, <<"B","C">> }

-----------------------------------------------------------------------------
(* The state: the address in hand, the text and the script last produced,  *)
(* and the outcome of the last call.                                       *)

NoArg == [compressed |-> FALSE, network |-> "None", coin |-> "none"]
R(op, arg, res, atype) ==
    [op |-> op, arg |-> arg, ok |-> res.ok, addr |-> res.addr, err |-> res.err,
     atype |-> atype]
Some(addr) == IF addr = NoAddr THEN Fail(NoErr) ELSE Ok(addr)

Init ==
    /\ a = new_btc
    /\ s = <<>>
    /\ sOf = NoAddr
    /\ script = <<>>
    /\ r = R("new_btc", NoArg, Ok(new_btc), "none")

NewOps == {"new_btc", "new_ltc", "new_dash", "new_zec", "new_doge"}
ToOps == {"to_btc", "to_ltc", "to_dash", "to_zec", "to_doge"}
\* no text and no script in hand
Idle == s = <<>> /\ script = <<>>
\* the address in hand is a template: made by new_* or converted by to_*
Template == Idle /\ r.op \in NewOps \cup ToOps

\* a call that returns an address: it replaces the one in hand
Returned(op, arg, res) ==
    /\ a' = IF res.ok THEN res.addr ELSE a
    /\ s' = <<>>
    /\ sOf' = NoAddr
    /\ script' = <<>>
    /\ r' = R(op, arg, res, "none")

New_btc == Returned("new_btc", NoArg, Ok(new_btc))
New_ltc == Returned("new_ltc", NoArg, Ok(new_ltc))
New_dash == Returned("new_dash", NoArg, Ok(new_dash))
New_zec == Returned("new_zec", NoArg, Ok(new_zec))
New_doge == Returned("new_doge", NoArg, Ok(new_doge))

To_btc == Idle /\ Returned("to_btc", NoArg, Ok(to_btc(a)))
To_ltc == Idle /\ Returned("to_ltc", NoArg, Ok(to_ltc(a)))
To_dash == Idle /\ Returned("to_dash", NoArg, Ok(to_dash(a)))
To_zec == Idle /\ Returned("to_zec", NoArg, Ok(to_zec(a)))
To_doge == Idle /\ Returned("to_doge", NoArg, Ok(to_doge(a)))

KeyArg(c, n) == [compressed |-> c, network |-> n, coin |-> "none"]
NetArg(n) == [compressed |-> FALSE, network |-> n, coin |-> "none"]
CoinArg(c) == [compressed |-> FALSE, network |-> "None", coin |-> c]

P2pkh ==
    \E i \in 1..NumKeys, c \in BOOLEAN, n \in Networks :
        Template /\ (c \/ r.op \in NewOps) /\ Returned("p2pkh", KeyArg(c, n), Ok(p2pkh(a, PublicKey(i, c), n)))
P2sh ==
    \E i \in 1..NumScripts, n \in Networks :
        Template /\ Returned("p2sh", NetArg(n), Ok(p2sh(a, InputScripts[i], n)))
P2wpkh ==
    \E i \in 1..NumKeys, c \in BOOLEAN, n \in Networks :
        Template /\ (c \/ r.op \in NewOps) /\ Returned("p2wpkh", KeyArg(c, n), p2wpkh(a, PublicKey(i, c), n))
P2shwpkh ==
    \E i \in 1..NumKeys, c \in BOOLEAN, n \in Networks :
        Template /\ (c \/ r.op \in NewOps) /\ Returned("p2shwpkh", KeyArg(c, n), p2shwpkh(a, PublicKey(i, c), n))
P2wsh ==
    \E i \in 1..NumScripts, n \in Networks :
        Template /\ Returned("p2wsh", NetArg(n), Ok(p2wsh(a, InputScripts[i], n)))
P2shwsh ==
    \E i \in 1..NumScripts, n \in Networks :
        Template /\ Returned("p2shwsh", NetArg(n), Ok(p2shwsh(a, InputScripts[i], n)))

\* addr.payload = ...; addr.network = ...: the fields are public
SetFields ==
    \E payload \in FieldPayloads, n \in FieldNetworks :
        Template /\ Returned("set_fields", NetArg(n), Ok(Derive(a, payload, n)))

AddressType ==
    /\ Idle
    /\ r' = R("address_type", NoArg, Ok(a), address_type(a))
    /\ UNCHANGED <<a, s, sOf, script>>
IsStandard ==
    /\ Idle
    /\ r' = R("is_standard", NoArg, Ok(a), IF is_standard(a) THEN "standard" ELSE "non-standard")
    /\ UNCHANGED <<a, s, sOf, script>>

\* Script::new_witness_program asserts a version of at most 16.
ScriptPubkey ==
    /\ Idle
    /\ a.payload.variant = "WitnessProgram" => a.payload.version <= 16
    /\ script' = script_pubkey(a)
    /\ sOf' = a
    /\ r' = R("script_pubkey", NoArg, Ok(a), "none")
    /\ UNCHANGED <<a, s>>
UseScript ==
    \E i \in 1..NumScripts :
        /\ Idle /\ r.op = "new_btc"
        /\ script' = InputScripts[i]
        /\ r' = R("use_script", NoArg, Ok(a), "none")
        /\ UNCHANGED <<a, s, sOf>>
\* template.from_script(&script, network), the template being the address in hand
FromScript ==
    \E n \in Networks :
        /\ script # <<>>
        /\ r.op \in {"script_pubkey", "use_script"}
        /\ r' = R("from_script", NetArg(n), Some(from_script(a, script, n)), "none")
        /\ UNCHANGED <<a, s, sOf, script>>

Display ==
    /\ Idle
    /\ s' = to_string(a)
    /\ sOf' = a
    /\ r' = R("to_string", NoArg, Ok(a), "none")
    /\ UNCHANGED <<a, script>>
UseVector ==
    \E i \in DOMAIN TestVectors :
        /\ Idle /\ r.op = "new_btc"
        /\ s' = TestVectors[i]
        /\ r' = R("use_vector", NoArg, Ok(a), "none")
        /\ UNCHANGED <<a, sOf, script>>
RawBech32 ==
    \E hrp \in RawHrps, data \in RawData :
        /\ Idle /\ r.op = "new_btc"
        /\ s' = bech32_encode(hrp, data)
        /\ r' = R("raw_bech32", NoArg, Ok(a), "none")
        /\ UNCHANGED <<a, sOf, script>>
\* Address::new_<coin>().from_str(s)
FromStr ==
    \E coin \in Coins :
        /\ s # <<>>
        /\ r.op \in {"to_string", "use_vector", "raw_bech32"}
        /\ r' = R("from_str", CoinArg(coin), from_str(New(coin), s), "none")
        /\ UNCHANGED <<a, s, sOf, script>>
\* .unwrap() of the address a parse returned
Unwrap ==
    /\ r.op \in {"from_str", "from_script"} /\ r.ok /\ sOf = NoAddr
    /\ Returned("unwrap", NoArg, Ok(r.addr))

\* assert_eq!(parsed, *addr): the parsed address compared with the printed one
Equals ==
    /\ r.op = "from_str" /\ r.ok /\ sOf # NoAddr
    /\ r' = [r EXCEPT !.op = "eq",
                      !.atype = IF Address_eq(r.addr, sOf) THEN "equal" ELSE "different"]
    /\ UNCHANGED <<a, s, sOf, script>>

Next ==
    \/ New_btc \/ New_ltc \/ New_dash \/ New_zec \/ New_doge
    \/ To_btc \/ To_ltc \/ To_dash \/ To_zec \/ To_doge
    \/ P2pkh \/ P2sh \/ P2wpkh \/ P2shwpkh \/ P2wsh \/ P2shwsh
    \/ SetFields \/ AddressType \/ IsStandard
    \/ ScriptPubkey \/ UseScript \/ FromScript
    \/ Display \/ UseVector \/ RawBech32 \/ FromStr \/ Unwrap \/ Equals

Spec == Init /\ [][Next]_vars

-----------------------------------------------------------------------------
(* Properties                                                              *)

\* The six profile fields of an address.
Profile(x) ==
    <<x.prefix_bech32_mainnet, x.prefix_bech32_testnet,
      x.version_pubkeyhash_mainnet, x.version_scripthash_mainnet,
      x.version_pubkeyhash_testnet, x.version_scripthash_testnet>>
\* The outcome of the last call as a Result.
Outcome == [ok |-> r.ok, addr |-> r.addr, err |-> r.err]
\* The last call was template.from_str(s), and its template.
Parsed == r.op = "from_str"
ParseTemplate == New(r.arg.coin)
\* Every address the six constructors return on the five templates.
ConstructedAddresses ==
    UNION { { p2pkh(New(coin), PublicKey(i, c), n) : i \in 1..NumKeys, c \in BOOLEAN }
            \cup { p2wpkh(New(coin), PublicKey(i, TRUE), n).addr : i \in 1..NumKeys }
            \cup { p2shwpkh(New(coin), PublicKey(i, TRUE), n).addr : i \in 1..NumKeys }
            \cup { p2sh(New(coin), InputScripts[i], n) : i \in 1..NumScripts }
            \cup { p2wsh(New(coin), InputScripts[i], n) : i \in 1..NumScripts }
            \cup { p2shwsh(New(coin), InputScripts[i], n) : i \in 1..NumScripts }
          : coin \in Coins, n \in Networks }

\* C1: the text of an address a constructor made, on any of the five templates
\* and for any of the four networks, parses on a template of the same profile
\* to an address equal to it.
C1_StringRoundTrip ==
    (Parsed /\ sOf \in ConstructedAddresses /\ Profile(ParseTemplate) = Profile(sOf))
        => (r.ok /\ r.addr = sOf)

IsWitness(p) == p.variant = "WitnessProgram"
C2_Payloads(p) ==
    \/ p.variant \in {"PubkeyHash", "ScriptHash"}
    \/ IsWitness(p) /\ p.version = 0 /\ Len(p.bytes) \in {20, 32}
    \/ IsWitness(p) /\ p.version \in 1..16 /\ Len(p.bytes) \in 2..40

\* C2: on the Bitcoin profile, the text of an address with network Bitcoin or
\* Testnet and a key hash, a script hash, a version-0 program of 20 or 32
\* bytes or a version 1..16 program of 2..40 bytes parses back to that address.
C2_BtcRoundTrip ==
    (/\ Parsed /\ r.arg.coin = "btc"
     /\ sOf # NoAddr /\ Profile(sOf) = Profile(new_btc)
     /\ sOf.network \in {"Bitcoin", "Testnet"}
     /\ C2_Payloads(sOf.payload))
        => (r.ok /\ r.addr = sOf)
C2_Reached ==
    /\ Parsed /\ r.arg.coin = "btc" /\ Profile(sOf) = Profile(new_btc)
    /\ sOf.network = "Testnet" /\ sOf.payload.variant = "ScriptHash"
    /\ r.ok /\ r.addr = sOf

C3_Payloads(p) ==
    \/ p.variant \in {"PubkeyHash", "ScriptHash"}
    \/ IsWitness(p) /\ p.version \in 0..16 /\ Len(p.bytes) \in 2..40

\* C3: the script of a key hash, a script hash or a version 0..16 program of
\* 2..40 bytes reads back as the same payload, and from_script returns it on the
\* template's profile with the network the caller gave.
C3_ScriptRoundTrip ==
    (r.op = "from_script" /\ sOf # NoAddr /\ C3_Payloads(sOf.payload))
        => /\ r.ok
           /\ r.addr.payload = sOf.payload
           /\ r.addr.network = r.arg.network
           /\ Profile(r.addr) = Profile(a)
C3_Reached ==
    /\ r.op = "from_script" /\ r.ok
    /\ IsWitness(sOf.payload) /\ sOf.payload.version = 1
    /\ r.addr.payload = sOf.payload
    /\ r.arg.network = "Regtest" /\ r.addr.network = "Regtest"

\* The input is a checksum-valid bech32 string whose human-readable part is one
\* of the template's two prefixes, with at least one data group.
Bech32ForTemplate ==
    LET dec == bech32_decode(s)
    IN /\ dec.ok
       /\ dec.data # <<>>
       /\ \/ ToUpperStr(dec.hrp) = ToUpperStr(ParseTemplate.prefix_bech32_mainnet)
          \/ ToUpperStr(dec.hrp) = ToUpperStr(ParseTemplate.prefix_bech32_testnet)
WitnessVersionOf(t) == bech32_decode(t).data[1]
GroupsOf(t) == Tail(bech32_decode(t).data)

\* C4: a checksum-valid bech32 string with a prefix of the profile and a first
\* group above 16 fails with InvalidWitnessVersion of that group, whatever the
\* remaining groups are.
C4_VersionGate ==
    (Parsed /\ Bech32ForTemplate /\ WitnessVersionOf(s) > 16)
        => (~r.ok /\ r.err = InvalidWitnessVersion(WitnessVersionOf(s)))

\* The bytes n groups of five bits hold.
BytesIn(groups) == (5 * Len(groups)) \div 8

\* C5: with a prefix of the profile, a version of at most 16 and a program of n
\* bytes, from_str returns InvalidWitnessProgramLength(n) for n < 2 or n > 40,
\* InvalidSegwitV0ProgramLength(n) for version 0 and n in 2..40 other than 20
\* and 32, and succeeds otherwise.
C5_LengthGates ==
    (/\ Parsed /\ Bech32ForTemplate
     /\ WitnessVersionOf(s) <= 16
     /\ from_base32_ok(GroupsOf(s)))
        => LET v == WitnessVersionOf(s)
               n == BytesIn(GroupsOf(s))
           IN IF n < 2 \/ n > 40
              THEN ~r.ok /\ r.err = InvalidWitnessProgramLength(n)
              ELSE IF v = 0 /\ n \notin {20, 32}
              THEN ~r.ok /\ r.err = InvalidSegwitV0ProgramLength(n)
              ELSE r.ok
C5_Reached ==
    /\ Parsed /\ Bech32ForTemplate
    /\ IsWitness(sOf.payload) /\ sOf.payload.version = 0 /\ Len(sOf.payload.bytes) = 1
    /\ r.err = InvalidWitnessProgramLength(1)

\* C6: p2wpkh and p2shwpkh fail with UncompressedPubkey exactly when the key's
\* compressed flag is false; p2pkh, p2sh, p2wsh and p2shwsh never fail.
C6_UncompressedRejected ==
    /\ r.op \in {"p2wpkh", "p2shwpkh"}
         => /\ r.ok <=> r.arg.compressed
            /\ ~r.ok => r.err = UncompressedPubkey
    /\ r.op \in {"p2pkh", "p2sh", "p2wsh", "p2shwsh"} => r.ok
C6_Reached ==
    r.op = "p2shwpkh" /\ ~r.arg.compressed /\ ~r.ok /\ r.err = UncompressedPubkey

C7_Class(p) ==
    CASE p.variant = "PubkeyHash" -> "P2pkh"
      [] p.variant = "ScriptHash" -> "P2sh"
      [] IsWitness(p) /\ p.version = 0 /\ Len(p.bytes) = 20 -> "P2wpkh"
      [] IsWitness(p) /\ p.version = 0 /\ Len(p.bytes) = 32 -> "P2wsh"
      [] OTHER -> "None"

\* C7: address_type is P2pkh, P2sh, P2wpkh (version 0, 20 bytes), P2wsh
\* (version 0, 32 bytes) and None for every other program; is_standard is true
\* exactly when the type is not None.
C7_Classification ==
    /\ r.op = "address_type" => r.atype = C7_Class(a.payload)
    /\ r.op = "is_standard" => (r.atype = "standard" <=> C7_Class(a.payload) # "None")
C7_Reached ==
    /\ r.op = "address_type" /\ r.atype = "None"
    /\ IsWitness(a.payload) /\ a.payload.version = 1 /\ Len(a.payload.bytes) = 32

\* The part of the text before its last "1", the whole text without one.
BeforeLastOne(t) ==
    LET ones == { i \in DOMAIN t : t[i] = "1" }
    IN IF ones = {} THEN t
       ELSE SubSeq(t, 1, (CHOOSE i \in ones : \A j \in ones : j <= i) - 1)
SameIgnoringCase(x, y) == ToUpperStr(x) = ToUpperStr(y)
MatchesTestnet == SameIgnoringCase(BeforeLastOne(s), ParseTemplate.prefix_bech32_testnet)
MatchesMainnet == SameIgnoringCase(BeforeLastOne(s), ParseTemplate.prefix_bech32_mainnet)
Bech32Kinds ==
    {"Bech32", "EmptyBech32Payload", "InvalidWitnessVersion",
     "InvalidWitnessProgramLength", "InvalidSegwitV0ProgramLength"}

C9_SentinelNeverMatches ==
    (Parsed /\ r.arg.coin \in {"dash", "zec", "doge"})
        => /\ ~MatchesTestnet /\ ~MatchesMainnet
           /\ Outcome = from_str_base58(ParseTemplate, s)

C10_ByVersion(tpl, data) ==
    LET prefix_len == Len(tpl.version_pubkeyhash_mainnet)
        version == SubSeq(data, 1, prefix_len)
        hash == SubSeq(data, prefix_len + 1, Len(data))
    IN CASE version = tpl.version_pubkeyhash_mainnet
              -> Ok(Derive(tpl, PubkeyHash(hash), "Bitcoin"))
         [] version # tpl.version_pubkeyhash_mainnet
            /\ version = tpl.version_scripthash_mainnet
              -> Ok(Derive(tpl, ScriptHash(hash), "Bitcoin"))
         [] version \notin {tpl.version_pubkeyhash_mainnet, tpl.version_scripthash_mainnet}
            /\ version = tpl.version_pubkeyhash_testnet
              -> Ok(Derive(tpl, PubkeyHash(hash), "Testnet"))
         [] version \notin {tpl.version_pubkeyhash_mainnet, tpl.version_scripthash_mainnet,
                            tpl.version_pubkeyhash_testnet}
            /\ version = tpl.version_scripthash_testnet
              -> Ok(Derive(tpl, ScriptHash(hash), "Testnet"))
         [] OTHER -> Fail(Base58Error("InvalidVersion", 0, version))

\* C10: a checksum-valid Base58 string of prefix_len + 20 bytes parses by its
\* version bytes: mainnet key hash, mainnet script hash, testnet key hash,
\* testnet script hash, the first equal one deciding, and InvalidVersion with
\* those bytes when none is equal.
C10_VersionDispatch ==
    (/\ Parsed /\ Len(s) <= 50
     /\ base58_from_check(s).ok
     /\ Len(base58_from_check(s).bytes) = Len(ParseTemplate.version_pubkeyhash_mainnet) + 20)
        => Outcome = C10_ByVersion(ParseTemplate, base58_from_check(s).bytes)

ShownHrp == bech32_decode(s).hrp
ShownVersion == SubSeq(base58_from_check(s).bytes, 1, Len(sOf.version_pubkeyhash_mainnet))

\* C12: the text of a key hash or a script hash carries the mainnet version
\* bytes for Bitcoin and the testnet ones for Testnet, Signet and Regtest; the
\* text of a witness program carries the mainnet prefix for Bitcoin, the
\* testnet prefix for Testnet and Signet, and "bcrt" for Regtest on every
\* profile.
C12_NetworkSelection ==
    (r.op = "to_string" /\ sOf # NoAddr)
        => CASE sOf.payload.variant = "PubkeyHash"
                  -> ShownVersion = (IF sOf.network = "Bitcoin"
                                     THEN sOf.version_pubkeyhash_mainnet
                                     ELSE sOf.version_pubkeyhash_testnet)
             [] sOf.payload.variant = "ScriptHash"
                  -> ShownVersion = (IF sOf.network = "Bitcoin"
                                     THEN sOf.version_scripthash_mainnet
                                     ELSE sOf.version_scripthash_testnet)
             [] OTHER
                  -> ShownHrp = (CASE sOf.network = "Bitcoin" -> sOf.prefix_bech32_mainnet
                                   [] sOf.network \in {"Testnet", "Signet"}
                                        -> sOf.prefix_bech32_testnet
                                   [] sOf.network = "Regtest" -> <<"b", "c", "r", "t">>)
C12_Reached ==
    /\ r.op = "to_string" /\ IsWitness(sOf.payload)
    /\ sOf.network = "Regtest" /\ Profile(sOf) = Profile(new_ltc)
    /\ ShownHrp = <<"b", "c", "r", "t">>

\* The regtest address of tests::test_json_serialize and its script.
RegtestText == TestVectors[19]
RegtestScript ==
    <<0, 20, 84, 210, 109, 221, 181, 156, 112, 115, 198, 161, 151, 148, 110, 161,
      132, 25, 81, 250, 122, 116>>

\* C13: Address::new_btc().from_str accepts a valid regtest bech32 text, and
\* the address it returns prints as the same text and has the matching
\* version-0 witness script.
C13_RegtestParses ==
    (Parsed /\ r.arg.coin = "btc" /\ s = RegtestText)
        => /\ r.ok
           /\ to_string(r.addr) = s
           /\ script_pubkey(r.addr) = RegtestScript

\* The built-in profile an address carries.
CoinOf(x) == CHOOSE c \in Coins : Profile(x) = Profile(New(c))

\* C14: two addresses are equal exactly when the payload, the network and the
\* six profile fields all match, and an address of one built-in profile never
\* equals an address of another, whatever the payload and the network.
C14_StructuralEquality ==
    r.op = "eq"
        => /\ r.atype = "equal"
                <=> /\ r.addr.payload = sOf.payload
                    /\ r.addr.network = sOf.network
                    /\ Profile(r.addr) = Profile(sOf)
           /\ CoinOf(r.addr) # CoinOf(sOf) => r.atype = "different"
C14_Reached ==
    /\ r.op = "eq" /\ r.atype = "different"
    /\ r.addr.payload = sOf.payload /\ r.addr.network = sOf.network
    /\ CoinOf(r.addr) = "ltc" /\ CoinOf(sOf) = "btc"

Constructors == {"p2pkh", "p2sh", "p2wpkh", "p2shwpkh", "p2wsh", "p2shwsh"}
\* What constructor op returns on template tpl for network n, over the keys
\* (with compressed flag c) and the scripts.
ResultsOn(op, tpl, n, c) ==
    CASE op = "p2pkh" -> { p2pkh(tpl, PublicKey(i, c), n) : i \in 1..NumKeys }
      [] op = "p2wpkh" -> { p2wpkh(tpl, PublicKey(i, c), n).addr : i \in 1..NumKeys }
      [] op = "p2shwpkh" -> { p2shwpkh(tpl, PublicKey(i, c), n).addr : i \in 1..NumKeys }
      [] op = "p2sh" -> { p2sh(tpl, InputScripts[i], n) : i \in 1..NumScripts }
      [] op = "p2wsh" -> { p2wsh(tpl, InputScripts[i], n) : i \in 1..NumScripts }
      [] op = "p2shwsh" -> { p2shwsh(tpl, InputScripts[i], n) : i \in 1..NumScripts }
C15_Step ==
    /\ (r'.op \in Constructors /\ r'.ok)
         => /\ Profile(r'.addr) = Profile(a)
            /\ r'.addr.network = r'.arg.network
            /\ r'.addr \in ResultsOn(r'.op, New(CoinOf(a)), r'.arg.network, r'.arg.compressed)
    /\ (r'.op = "from_script" /\ r'.ok)
         => /\ Profile(r'.addr) = Profile(a)
            /\ r'.addr.network = r'.arg.network
            /\ r'.addr = from_script(New(CoinOf(a)), script, r'.arg.network)
    /\ (r'.op = "from_str" /\ r'.ok)
         => Profile(r'.addr) = Profile(New(r'.arg.coin))

\* C15: the six constructors, from_script and a successful from_str return the
\* template's six profile fields unchanged; the constructors and from_script
\* return the caller's network and what they would return on a fresh template
\* of the same profile, whatever payload and network the template holds.
C15_ProfileFrame == [][C15_Step]_vars
C15_Reached ==
    /\ r.op = "p2shwsh" /\ r.ok /\ r.addr = a
    /\ a.network = "Regtest" /\ CoinOf(a) = "zec"

\* C16: a checksum-valid Base58 text whose decoded length is not prefix_len + 20
\* fails with Base58 InvalidLength of the decoded length, and InvalidVersion is
\* returned only for data of exactly prefix_len + 20 bytes.
C16_DecodedLength ==
    (Parsed /\ base58_from_check(s).ok)
        => LET n == Len(base58_from_check(s).bytes)
               prefix_len == Len(ParseTemplate.version_pubkeyhash_mainnet)
           IN /\ n # prefix_len + 20
                   => Outcome = Fail(Base58Error("InvalidLength", n, NoBytes))
              /\ (~r.ok /\ r.err.kind = "Base58" /\ r.err.sub = "InvalidVersion")
                   => n = prefix_len + 20

\* C17: with a matching prefix, a failure of the bech32 decoder is returned as
\* a Bech32 error, and a text it decodes to no data groups gives
\* EmptyBech32Payload.
C17_EmptyPayload ==
    (Parsed /\ (MatchesTestnet \/ MatchesMainnet))
        => IF ~bech32_decode(s).ok
           THEN Outcome = Fail(bech32_decode(s).err) /\ r.err.kind = "Bech32"
           ELSE bech32_decode(s).data = <<>> => Outcome = Fail(EmptyBech32Payload)
C17_Reached ==
    /\ Parsed /\ MatchesMainnet /\ r.arg.coin = "btc"
    /\ bech32_decode(s).ok /\ bech32_decode(s).data = <<>>
    /\ r.err = EmptyBech32Payload

\* C18: an address a successful from_str returns holds a 20-byte key hash or
\* script hash, or a witness program of version at most 16 and 2..40 bytes,
\* of 20 or 32 bytes when the version is 0.
C18_ParserOutput ==
    (Parsed /\ r.ok)
        => LET p == r.addr.payload
           IN \/ p.variant \in {"PubkeyHash", "ScriptHash"} /\ Len(p.bytes) = 20
              \/ /\ IsWitness(p) /\ p.version <= 16
                 /\ Len(p.bytes) >= 2 /\ Len(p.bytes) <= 40
                 /\ p.version = 0 => Len(p.bytes) \in {20, 32}
C18_Reached ==
    /\ Parsed /\ r.ok /\ IsWitness(r.addr.payload)
    /\ r.addr.payload.version = 16 /\ Len(r.addr.payload.bytes) = 40

To(coin, x) ==
    CASE coin = "btc" -> to_btc(x)
      [] coin = "ltc" -> to_ltc(x)
      [] coin = "dash" -> to_dash(x)
      [] coin = "zec" -> to_zec(x)
      [] coin = "doge" -> to_doge(x)
C20_Step ==
    \A c \in Coins :
        r'.op = "to_" \o c
            => /\ a'.payload = a.payload
               /\ a'.network = a.network
               /\ Profile(a') = Profile(New(c))
               /\ To(c, a') = a'
               /\ \A d \in Coins : To(c, To(d, a)) = a' /\ To(c, New(d)) = New(c)

\* C20: each to_<coin> keeps the payload and the network and sets the six
\* profile fields to those of new_<coin>; it is idempotent, the last of several
\* conversions decides the profile, and to_X(new_Y()) = new_X().
C20_CoinConversion == [][C20_Step]_vars
C20_Reached ==
    /\ r.op = "to_zec" /\ CoinOf(a) = "zec"
    /\ a.network = "Bitcoin" /\ IsWitness(a.payload)

\* The four version fields of a profile, by network and payload kind.
VersionField(x, n, kind) ==
    CASE n = "Bitcoin" /\ kind = "PubkeyHash" -> x.version_pubkeyhash_mainnet
      [] n = "Bitcoin" /\ kind = "ScriptHash" -> x.version_scripthash_mainnet
      [] n = "Testnet" /\ kind = "PubkeyHash" -> x.version_pubkeyhash_testnet
      [] n = "Testnet" /\ kind = "ScriptHash" -> x.version_scripthash_testnet
VersionKeys == {"Bitcoin", "Testnet"} \X {"PubkeyHash", "ScriptHash"}
\* The (network, kind) pairs of profile x whose version bytes are ver.
PairsWith(x, ver) == { k \in VersionKeys : VersionField(x, k[1], k[2]) = ver }
Base58Class(n) == IF n = "Bitcoin" THEN "Bitcoin" ELSE "Testnet"

\* C21: in every built-in profile the four version fields have one length (1
\* byte, 2 for Zcash) and are pairwise distinct, so decoded version bytes match
\* at most one (network, kind) pair, and the Base58 text of an address names
\* exactly the pair of its own payload kind and network.
C21_UnambiguousProfiles ==
    /\ \A k \in VersionKeys :
          Len(VersionField(a, k[1], k[2]))
              = (IF a.version_pubkeyhash_mainnet = <<28, 184>> THEN 2 ELSE 1)
    /\ \A k, l \in VersionKeys :
          VersionField(a, k[1], k[2]) = VersionField(a, l[1], l[2]) => k = l
    /\ (Parsed /\ Len(s) <= 50 /\ base58_from_check(s).ok)
          => Cardinality(PairsWith(ParseTemplate,
                 SubSeq(base58_from_check(s).bytes, 1,
                        Len(ParseTemplate.version_pubkeyhash_mainnet)))) <= 1
    /\ (r.op = "to_string" /\ sOf # NoAddr /\ ~IsWitness(sOf.payload))
          => PairsWith(sOf, ShownVersion)
                 = {<<Base58Class(sOf.network), sOf.payload.variant>>}
C21_Reached ==
    /\ r.op = "to_string" /\ sOf.payload.variant = "ScriptHash"
    /\ sOf.network = "Testnet" /\ Profile(sOf) = Profile(new_doge)
    /\ ShownVersion = <<196>>

====
